---- MODULE Spec2Model ----
(***************************************************************************)
(* Quantum Werewolf: the possible-worlds engine of src/src/game/types.rs   *)
(* (Role, Faction, Universe, Multiverse) and the phase machine of          *)
(* src/src/game/state.rs (Signups, Night, Day, Complete).                  *)
(*                                                                         *)
(* Conventions.  Rust vectors are sequences; Rust indexes players from 0,  *)
(* the model from 1 (player_idx k of the code is k + 1 here).  Option<T>   *)
(* is a sequence of length at most one: None is << >>, Some(x) is <<x>>.   *)
(* Every random draw (shuffle, rand) is a nondeterministic choice.         *)
(***************************************************************************)
EXTENDS Integers, Sequences, FiniteSets, TLC

\* ------------------------------------------------------------------ bounds
\* longest role list handed to start
MaxRoles == 2
\* longest action list handed to resolve_nar
MaxBatch == 2
\* number of night resolutions explored
MaxNights == 1
\* number of shuffle outcomes start draws the secret ids from
MaxShuffles == 2

\* the identities that sign up, and one identity that never does
Names == {"a", "b", "c"}
Stranger == "z"
AnswerNames == Names \cup {Stranger}

MIN_PLAYERS == 3

None == << >>
Some(x) == <<x>>

\* ------------------------------------------------------------------ Faction, Role
Werewolves == "werewolves"
Village == "village"
Factions == {Werewolves, Village}

Detective == [kind |-> "detective", rank |-> 0]
Healer == [kind |-> "healer", rank |-> 0]
Villager == [kind |-> "villager", rank |-> 0]
Werewolf(n) == [kind |-> "werewolf", rank |-> n]
IsWerewolf(role) == role.kind = "werewolf"

default_faction_SpecialsAreThreats(role) ==
    IF role.kind = "villager" THEN Village ELSE Werewolves

default_faction(role) ==
    IF role.kind \in {"detective", "healer", "villager"} THEN Village ELSE Werewolves

\* ------------------------------------------------------------------ sequences
RECURSIVE SeqOfSet(_)
SeqOfSet(S) ==
    IF S = {} THEN << >>
    ELSE LET x == CHOOSE y \in S : TRUE IN <<x>> \o SeqOfSet(S \ {x})

Contains(s, x) == \E i \in 1..Len(s) : s[i] = x
Range(s) == {s[i] : i \in 1..Len(s)}

\* position(|e| e = x): the first index holding x, None when absent
Position(s, x) ==
    IF Contains(s, x)
    THEN Some(CHOOSE i \in 1..Len(s) : s[i] = x /\ \A j \in 1..(i - 1) : s[j] # x)
    ELSE None

\* The outcomes of collecting a set into a vector and shuffling it.  Every order
\* is possible; the model draws from MaxShuffles of them, the rotations of one
\* enumeration of the set.
Shuffles(S) ==
    LET n == Cardinality(S)
        base == SeqOfSet(S)
    IN  {[i \in 1..n |-> base[((i - 1 + k) % n) + 1]] : k \in 0..(MaxShuffles - 1)}

\* ------------------------------------------------------------------ Universe
\* wincon in which the Werewolves only win while one of them is alive
wincon_WolvesNeedWolf(faction, universe) ==
    LET n == Len(universe.alive)
        villager_alive == \E i \in 1..n : universe.factions[i] = Village /\ universe.alive[i]
        threat_alive == \E i \in 1..n : universe.factions[i] = Werewolves /\ universe.alive[i]
    IN  IF faction = Werewolves THEN ~villager_alive /\ threat_alive
        ELSE villager_alive /\ ~threat_alive

\* wincon in which the Village wins as soon as no Werewolves player is alive
wincon_NoThreatSuffices(faction, universe) ==
    LET n == Len(universe.alive)
        villager_alive == \E i \in 1..n : universe.factions[i] = Village /\ universe.alive[i]
        threat_alive == \E i \in 1..n : universe.factions[i] = Werewolves /\ universe.alive[i]
    IN  IF faction = Werewolves THEN ~villager_alive
        ELSE ~threat_alive

\* wincon: Werewolves win when no Village player is alive; Village wins when a
\* Village player is alive and no Werewolves player is.
wincon(faction, universe) ==
    LET n == Len(universe.alive)
        villager_alive == \E i \in 1..n : universe.factions[i] = Village /\ universe.alive[i]
        threat_alive == \E i \in 1..n : universe.factions[i] = Werewolves /\ universe.alive[i]
    IN  IF faction = Werewolves THEN ~villager_alive
        ELSE villager_alive /\ ~threat_alive

\* game_over with the night flag read the wrong way round
UniverseGameOver_FlagInverted(universe, night) ==
    LET n == Len(universe.alive) IN
    \/ \A i \in 1..n : ~universe.alive[i]
    \/ night /\ Cardinality({i \in 1..n : universe.alive[i]}) < 2
    \/ night /\ \E i \in 1..n : wincon(universe.factions[i], universe)

UniverseGameOver(universe, night) ==
    LET n == Len(universe.alive) IN
    \/ \A i \in 1..n : ~universe.alive[i]
    \/ ~night /\ Cardinality({i \in 1..n : universe.alive[i]}) < 2
    \/ ~night /\ \E i \in 1..n : wincon(universe.factions[i], universe)

\* kill with the heal check applied by day as well
kill_HealedByDay(universe, player_idx, night) ==
    IF Contains(universe.heals, player_idx) THEN universe
    ELSE IF night THEN [universe EXCEPT !.kills = Append(@, player_idx)]
    ELSE [universe EXCEPT !.alive[player_idx] = FALSE]

\* Universe::kill: at night a kill is only queued, and only for a player who is
\* not healed; by day it takes effect at once.
kill(universe, player_idx, night) ==
    IF night
    THEN IF ~Contains(universe.heals, player_idx)
         THEN [universe EXCEPT !.kills = Append(@, player_idx)]
         ELSE universe
    ELSE [universe EXCEPT !.alive[player_idx] = FALSE]

\* Universe::heal: record the target as protected this night
heal(universe, player_idx) ==
    [universe EXCEPT !.heals = Append(@, player_idx)]

UniverseFrom(roles) ==
    [alive |-> [i \in 1..Len(roles) |-> TRUE],
     factions |-> [i \in 1..Len(roles) |-> default_faction(roles[i])],
     roles |-> roles,
     heals |-> << >>,
     kills |-> << >>]

\* ------------------------------------------------------------------ Multiverse

\* one fork of perm per slot, taken or not
Forks_AnySlot(perm, role) ==
    [k \in 1..Len(perm) |-> [perm EXCEPT ![k] = role]]

\* one fork of perm per slot that still holds a Villager, in slot order
Forks(perm, role) ==
    LET slots == SelectSeq([i \in 1..Len(perm) |-> i], LAMBDA i : perm[i] = Villager)
    IN  [k \in 1..Len(slots) |-> [perm EXCEPT ![slots[k]] = role]]

\* the flat_map of one role over all permutations
RECURSIVE ForkAll(_, _)
ForkAll(permutations, role) ==
    IF permutations = << >> THEN << >>
    ELSE Forks(Head(permutations), role) \o ForkAll(Tail(permutations), role)

RECURSIVE PlaceRoles(_, _)
PlaceRoles(permutations, roles) ==
    IF roles = << >> THEN permutations
    ELSE PlaceRoles(ForkAll(permutations, Head(roles)), Tail(roles))

MultiverseNew(roles, num_players) ==
    LET permutations == PlaceRoles(<<[i \in 1..num_players |-> Villager]>>, roles)
    IN  [k \in 1..Len(permutations) |-> UniverseFrom(permutations[k])]

num_players(mv) == Len(mv[1].alive)

\* the players alive in at least one universe
alive(mv) ==
    {idx \in 1..num_players(mv) : \E k \in 1..Len(mv) : mv[k].alive[idx]}

role(mv, player_idx) ==
    IF \A k \in 2..Len(mv) : mv[k].roles[player_idx] = mv[1].roles[player_idx]
    THEN Some(mv[1].roles[player_idx])
    ELSE None

faction(mv, player_idx) ==
    IF \A k \in 2..Len(mv) : mv[k].factions[player_idx] = mv[1].factions[player_idx]
    THEN Some(mv[1].factions[player_idx])
    ELSE None

role_alive(mv, r) ==
    \E k \in 1..Len(mv) : \E player_idx \in 1..Len(mv[k].roles) :
        /\ mv[k].roles[player_idx] = r
        /\ (mv[k].alive[player_idx] \/ role(mv, player_idx) = None)

\* game_over that is content with one finished universe
game_over_SomeUniverse(mv, night) == \E k \in 1..Len(mv) : UniverseGameOver(mv[k], night)

game_over(mv, night) == \A k \in 1..Len(mv) : UniverseGameOver(mv[k], night)

\* collapse_roles.  One pass samples a universe, fixes its roles for every
\* player dead in all universes (on top of the roles fixed by earlier passes)
\* and drops the universes that disagree; passes repeat until the size is
\* stable.  The result is the set of all outcomes over the sampled universes;
\* sampling from an empty multiverse is the paradox abort.
Paradox == [ok |-> FALSE, mv |-> << >>]
\* Agrees comparing the faction of the collapsed role instead of the role
Agrees_ByFaction(universe, collapsed_roles) ==
    \A id \in DOMAIN collapsed_roles :
        universe.factions[id] = default_faction(collapsed_roles[id])

Agrees(universe, collapsed_roles) ==
    \A id \in DOMAIN collapsed_roles : universe.roles[id] = collapsed_roles[id]

CollapsePass(mv, collapsed_roles, sample) ==
    LET dead == (1..num_players(mv)) \ alive(mv)
        fixed == [id \in (DOMAIN collapsed_roles) \cup dead |->
                    IF id \in dead THEN mv[sample].roles[id] ELSE collapsed_roles[id]]
    IN  [fixed |-> fixed,
         mv |-> SelectSeq(mv, LAMBDA universe : Agrees(universe, fixed))]

\* collapse_roles that stops after its first pass
CollapseLoop_OnePass(mv, collapsed_roles, start_size) ==
    IF mv = << >> THEN {Paradox}
    ELSE {[ok |-> TRUE, mv |-> CollapsePass(mv, collapsed_roles, sample).mv] :
             sample \in 1..Len(mv)}

\* collapse_roles that fixes the roles of the dead and removes no universe
CollapseLoop_NothingRemoved(mv, collapsed_roles, start_size) ==
    IF mv = << >> THEN {Paradox} ELSE {[ok |-> TRUE, mv |-> mv]}

RECURSIVE CollapseLoop(_, _, _)
CollapseLoop(mv, collapsed_roles, start_size) ==
    IF mv = << >> THEN {Paradox}
    ELSE UNION {
        LET pass == CollapsePass(mv, collapsed_roles, sample)
        IN  IF Len(pass.mv) = start_size
            THEN {[ok |-> TRUE, mv |-> pass.mv]}
            ELSE CollapseLoop(pass.mv, pass.fixed, Len(pass.mv))
        : sample \in 1..Len(mv)}

collapse_roles(mv) == CollapseLoop(mv, << >>, Len(mv))

\* ------------------------------------------------------------------ state
VARIABLES
    phase,                  \* "Signups", "Night", "Day", "Complete", "StartFailed", "Aborted"
    player_names,           \* Signups.player_names
    secret_ids,             \* the players by secret id
    multiverse,             \* the universes still possible
    last_heals,             \* per player, the heal target chosen on the previous night
    night_action_results,   \* per player, the investigation result of this night
    winners,                \* Complete.winners
    start_error,            \* the error start returned, None when it returned none
    pc,                     \* position inside resolve_tar: "idle" outside of it
    done,                   \* the players the running loop of resolve_tar has visited
    asked,                  \* per callback and player, the calls resolve_tar has made this night
    current_heals,          \* resolve_tar's current_heals
    aborted,                \* the panic message that ended the program, None otherwise
    nights                  \* the night resolutions begun so far

vars == <<phase, player_names, secret_ids, multiverse, last_heals, night_action_results,
          winners, start_error, pc, done, asked, current_heals, aborted, nights>>

NoOptions(n) == [i \in 1..n |-> None]

Init ==
    /\ phase = "Signups"
    /\ player_names = {}
    /\ secret_ids = << >>
    /\ multiverse = << >>
    /\ last_heals = << >>
    /\ night_action_results = << >>
    /\ winners = {}
    /\ start_error = None
    /\ pc = "idle"
    /\ done = {}
    /\ asked = << >>
    /\ current_heals = << >>
    /\ aborted = None
    /\ nights = 0

\* A panic unwinds the program: the state it owned is gone.
Abort(msg) ==
    /\ phase' = "Aborted"
    /\ aborted' = Some(msg)
    /\ player_names' = {}
    /\ secret_ids' = << >>
    /\ multiverse' = << >>
    /\ last_heals' = << >>
    /\ night_action_results' = << >>
    /\ winners' = {}
    /\ pc' = "idle"
    /\ done' = {}
    /\ asked' = << >>
    /\ current_heals' = << >>
    /\ nights' = 0
    /\ UNCHANGED start_error

\* ------------------------------------------------------------------ Signups
\* HashSet::insert that reports success whether or not the value was there
insert_AlwaysTrue(set, value) ==
    [set |-> set \cup {value}, returned |-> TRUE]

\* HashSet::insert: the set afterwards and the value returned
insert(set, value) ==
    [set |-> set \cup {value}, returned |-> value \notin set]

\* HashSet::remove: the set afterwards and the value returned
remove(set, value) ==
    [set |-> set \ {value}, returned |-> value \in set]

sign_up(player_id) ==
    /\ phase = "Signups"
    /\ player_names' = insert(player_names, player_id).set
    /\ UNCHANGED <<phase, secret_ids, multiverse, last_heals, night_action_results, winners,
                   start_error, pc, done, asked, current_heals, aborted, nights>>

remove_player(player_id) ==
    /\ phase = "Signups"
    /\ player_names' = remove(player_names, player_id).set
    /\ UNCHANGED <<phase, secret_ids, multiverse, last_heals, night_action_results, winners,
                   start_error, pc, done, asked, current_heals, aborted, nights>>

\* start's fold without the filter: Villagers keep their entries
RenumberRoles_VillagersKept(roles, num_ww) ==
    [i \in 1..Len(roles) |->
        IF IsWerewolf(roles[i])
        THEN Werewolf(num_ww + Cardinality({j \in 1..(i - 1) : IsWerewolf(roles[j])}))
        ELSE roles[i]]

\* start's fold without the renumbering of the Werewolves
RenumberRoles_RanksKept(roles, num_ww) ==
    SelectSeq(roles, LAMBDA r : r # Villager)

\* start's fold: Villagers are dropped and the Werewolves renumbered 0, 1, ...
RECURSIVE RenumberRoles(_, _)
RenumberRoles(roles, num_ww) ==
    IF roles = << >> THEN << >>
    ELSE IF Head(roles) = Villager THEN RenumberRoles(Tail(roles), num_ww)
    ELSE IF IsWerewolf(Head(roles))
         THEN <<Werewolf(num_ww)>> \o RenumberRoles(Tail(roles), num_ww + 1)
         ELSE <<Head(roles)>> \o RenumberRoles(Tail(roles), num_ww)

\* Complete::new that lets only the survivors win
WinnersIn_SurvivorsOnly(ids, universe) ==
    {ids[i] : i \in {j \in 1..Len(ids) :
                        universe.alive[j] /\ wincon(universe.factions[j], universe)}}

\* Complete::new: the winners of one sampled universe
WinnersIn(ids, universe) ==
    {ids[i] : i \in {j \in 1..Len(ids) : wincon(universe.factions[j], universe)}}

\* Complete::new that gathers the winners of every universe
CompleteNew_AllUniverses(ids, mv) ==
    {UNION {WinnersIn(ids, mv[k]) : k \in 1..Len(mv)}}

CompleteNew(ids, mv) ==
    IF mv = << >> THEN {{}} ELSE {WinnersIn(ids, mv[k]) : k \in 1..Len(mv)}

Complete(ids, mv) ==
    /\ phase' = "Complete"
    /\ winners' \in CompleteNew(ids, mv)
    /\ secret_ids' = ids
    /\ multiverse' = mv
    /\ last_heals' = << >>
    /\ night_action_results' = << >>
    /\ pc' = "idle"
    /\ done' = {}
    /\ asked' = << >>
    /\ current_heals' = << >>

RoleTokens == {Detective, Healer, Villager, Werewolf(0), Werewolf(1)}
RoleLists == UNION {[1..n -> RoleTokens] : n \in 0..MaxRoles}

\* start that also refuses a role for every player
start_RolesOffByOne(roles, order) ==
    LET n == Cardinality(player_names) IN
    /\ phase = "Signups"
    /\ IF n < MIN_PLAYERS
       THEN /\ phase' = "StartFailed"
            /\ start_error' = Some([error |-> "NotEnoughPlayers",
                                    required |-> MIN_PLAYERS, found |-> n])
            /\ UNCHANGED <<secret_ids, multiverse, last_heals, night_action_results,
                           winners, pc, done, asked, current_heals>>
       ELSE IF n <= Len(roles)
       THEN /\ phase' = "StartFailed"
            /\ start_error' = Some([error |-> "RolesCount",
                                    required |-> n, found |-> Len(roles)])
            /\ UNCHANGED <<secret_ids, multiverse, last_heals, night_action_results,
                           winners, pc, done, asked, current_heals>>
       ELSE LET mv == MultiverseNew(RenumberRoles(roles, 0), n) IN
            /\ start_error' = None
            /\ IF game_over(mv, FALSE)
               THEN Complete(order, mv)
               ELSE /\ phase' = "Night"
                    /\ secret_ids' = order
                    /\ multiverse' = mv
                    /\ last_heals' = NoOptions(n)
                    /\ UNCHANGED <<night_action_results, winners, pc, done, asked, current_heals>>
    /\ player_names' = {}
    /\ UNCHANGED <<aborted, nights>>

start(roles, order) ==
    LET n == Cardinality(player_names) IN
    /\ phase = "Signups"
    /\ IF n < MIN_PLAYERS
       THEN /\ phase' = "StartFailed"
            /\ start_error' = Some([error |-> "NotEnoughPlayers",
                                    required |-> MIN_PLAYERS, found |-> n])
            /\ UNCHANGED <<secret_ids, multiverse, last_heals, night_action_results,
                           winners, pc, done, asked, current_heals>>
       ELSE IF n < Len(roles)
       THEN /\ phase' = "StartFailed"
            /\ start_error' = Some([error |-> "RolesCount",
                                    required |-> n, found |-> Len(roles)])
            /\ UNCHANGED <<secret_ids, multiverse, last_heals, night_action_results,
                           winners, pc, done, asked, current_heals>>
       ELSE LET mv == MultiverseNew(RenumberRoles(roles, 0), n) IN
            /\ start_error' = None
            /\ IF game_over(mv, FALSE)
               THEN Complete(order, mv)
               ELSE /\ phase' = "Night"
                    /\ secret_ids' = order
                    /\ multiverse' = mv
                    /\ last_heals' = NoOptions(n)
                    /\ UNCHANGED <<night_action_results, winners, pc, done, asked, current_heals>>
    /\ player_names' = {}
    /\ UNCHANGED <<aborted, nights>>

\* ------------------------------------------------------------------ Night: shared steps
\* the reset that empties the death lists and keeps the protections
ResetLists_HealsKept(mv) == [k \in 1..Len(mv) |-> [mv[k] EXCEPT !.kills = << >>]]

\* "reset kill lists"
ResetLists(mv) == [k \in 1..Len(mv) |-> [mv[k] EXCEPT !.heals = << >>, !.kills = << >>]]

\* the death list read as the whole truth about who is alive
KillDeathList_OnlyTonight(universe) ==
    [universe EXCEPT !.alive = [i \in 1..Len(universe.alive) |->
                                   ~Contains(universe.kills, i)]]

\* "kill all players on the death list"
KillDeathList(universe) ==
    [universe EXCEPT !.alive = [i \in 1..Len(universe.alive) |->
                                   universe.alive[i] /\ ~Contains(universe.kills, i)]]

\* a night resolution that hands back a Night
Dawn_ToNight(mv, heals, results, night) ==
    \E out \in collapse_roles([k \in 1..Len(mv) |-> KillDeathList(mv[k])]) :
        IF ~out.ok
        THEN Abort("paradox created while collapsing roles")
        ELSE /\ IF game_over(out.mv, FALSE)
                THEN Complete(secret_ids, out.mv)
                ELSE /\ phase' = "Night"
                     /\ multiverse' = out.mv
                     /\ night_action_results' = results
                     /\ last_heals' = heals
                     /\ pc' = "idle"
                     /\ done' = {}
                     /\ asked' = << >>
                     /\ current_heals' = << >>
                     /\ UNCHANGED <<secret_ids, winners>>
             /\ nights' = night
             /\ UNCHANGED <<player_names, start_error, aborted>>

\* the end of a night resolution: deaths, role collapse, then Complete or Day
Dawn(mv, heals, results, night) ==
    \E out \in collapse_roles([k \in 1..Len(mv) |-> KillDeathList(mv[k])]) :
        IF ~out.ok
        THEN Abort("paradox created while collapsing roles")
        ELSE /\ IF game_over(out.mv, FALSE)
                THEN Complete(secret_ids, out.mv)
                ELSE /\ phase' = "Day"
                     /\ multiverse' = out.mv
                     /\ night_action_results' = results
                     /\ last_heals' = heals
                     /\ pc' = "idle"
                     /\ done' = {}
                     /\ asked' = << >>
                     /\ current_heals' = << >>
                     /\ UNCHANGED <<secret_ids, winners>>
             /\ nights' = night
             /\ UNCHANGED <<player_names, start_error, aborted>>

\* ------------------------------------------------------------------ Night: resolve_tar
\* the candidates offered to a healer: the players who may be alive, without
\* the target the player chose last night
Healable(player_id) ==
    {iter_id \in alive(multiverse) :
        last_heals[player_id] = None \/ last_heals[player_id][1] # iter_id}

\* can_heal without the role test
TarCanHeal_AnyRole(universe, player_id, target_id) ==
    /\ universe.alive[player_id]
    /\ universe.alive[target_id]

TarCanHeal(universe, player_id, target_id) ==
    /\ universe.roles[player_id] = Healer
    /\ universe.alive[player_id]
    /\ universe.alive[target_id]

TarHealUniverse(universe, player_id, target_id) ==
    IF TarCanHeal(universe, player_id, target_id) THEN heal(universe, target_id) ELSE universe

\* sampling that takes universes where the Detective is dead as well
TarDetectiveIn_DeadOrAlive(universe, player_id) ==
    universe.roles[player_id] = Detective

\* the universes an investigation result is sampled from
TarDetectiveIn(universe, player_id) ==
    universe.roles[player_id] = Detective /\ universe.alive[player_id]

\* the investigation filter without the role test
TarInvestigationKeeps_AnyRole(universe, player_id, target_id, investigated_faction) ==
    ~(/\ universe.alive[player_id]
      /\ universe.factions[target_id] # investigated_faction)

TarInvestigationKeeps(universe, player_id, target_id, investigated_faction) ==
    ~(/\ universe.roles[player_id] = Detective
      /\ universe.alive[player_id]
      /\ universe.factions[target_id] # investigated_faction)

\* can_kill with the rank comparison turned around
TarCanKill_JuniorFirst(universe, player_id, target_id) ==
    /\ IF IsWerewolf(universe.roles[player_id])
       THEN \A i \in 1..Len(universe.roles) :
                IF IsWerewolf(universe.roles[i])
                THEN universe.roles[i].rank <= universe.roles[player_id].rank
                     \/ ~universe.alive[i]
                ELSE TRUE
       ELSE FALSE
    /\ universe.alive[player_id]
    /\ universe.alive[target_id]

TarCanKill(universe, player_id, target_id) ==
    /\ IF IsWerewolf(universe.roles[player_id])
       THEN \A i \in 1..Len(universe.roles) :
                IF IsWerewolf(universe.roles[i])
                THEN universe.roles[i].rank >= universe.roles[player_id].rank
                     \/ ~universe.alive[i]
                ELSE TRUE
       ELSE FALSE
    /\ universe.alive[player_id]
    /\ universe.alive[target_id]

TarKillUniverse(universe, player_id, target_id) ==
    IF TarCanKill(universe, player_id, target_id) THEN kill(universe, target_id, TRUE)
    ELSE universe

\* the loops of resolve_tar with the healer loop run on every night
LoopAfter_HealerNotChecked(loop, mv) ==
    IF loop = "begin" THEN "heal"
    ELSE IF loop \in {"begin", "heal"} /\ role_alive(mv, Detective) THEN "investigate"
    ELSE IF loop \in {"begin", "heal", "investigate"} THEN "kill"
    ELSE "dawn"

\* which loop of resolve_tar runs after the one named
LoopAfter(loop, mv) ==
    IF loop = "begin" /\ role_alive(mv, Healer) THEN "heal"
    ELSE IF loop \in {"begin", "heal"} /\ role_alive(mv, Detective) THEN "investigate"
    ELSE IF loop \in {"begin", "heal", "investigate"} THEN "kill"
    ELSE "dawn"

\* one iteration of a loop over shuffled_players has visited player_id
Visited(loop, player_id, mv) ==
    IF done \cup {player_id} = 1..Len(secret_ids)
    THEN pc' = LoopAfter(loop, mv) /\ done' = {}
    ELSE pc' = loop /\ done' = done \cup {player_id}

\* the calls of the callbacks: none so far, and one more of callback to player_id
NobodyAsked(n) ==
    [callback \in {"heal", "investigate", "kill"} |-> [player_id \in 1..n |-> 0]]
Ask(calls, callback, player_id) ==
    [calls EXCEPT ![callback][player_id] = @ + 1]

TarBegin(max_nights) ==
    /\ phase = "Night"
    /\ pc = "idle"
    /\ nights < max_nights
    /\ nights' = nights + 1
    /\ multiverse' = ResetLists(multiverse)
    /\ current_heals' = NoOptions(Len(secret_ids))
    /\ night_action_results' = NoOptions(Len(secret_ids))
    /\ pc' = LoopAfter("begin", multiverse)
    /\ done' = {}
    /\ asked' = NobodyAsked(Len(secret_ids))
    /\ UNCHANGED <<phase, player_names, secret_ids, last_heals, winners, start_error, aborted>>

\* one iteration of the healer loop: player_id answers choose_heal_target
TarHeal(player_id, choice) ==
    /\ phase = "Night"
    /\ pc = "heal"
    /\ player_id \in (1..Len(secret_ids)) \ done
    /\ IF player_id \notin alive(multiverse) \/ choice = None
       THEN /\ Visited("heal", player_id, multiverse)
            /\ asked' = IF player_id \in alive(multiverse)
                        THEN Ask(asked, "heal", player_id) ELSE asked
            /\ UNCHANGED <<phase, player_names, secret_ids, multiverse, last_heals,
                           night_action_results, winners, start_error, current_heals,
                           aborted, nights>>
       ELSE IF Position(secret_ids, choice[1]) = None
       THEN Abort("healed player not in game")
       ELSE LET target_id == Position(secret_ids, choice[1])[1] IN
            /\ current_heals' = [current_heals EXCEPT ![player_id] = Some(target_id)]
            /\ multiverse' = [k \in 1..Len(multiverse) |->
                                TarHealUniverse(multiverse[k], player_id, target_id)]
            /\ Visited("heal", player_id, multiverse)
            /\ asked' = Ask(asked, "heal", player_id)
            /\ UNCHANGED <<phase, player_names, secret_ids, last_heals, night_action_results,
                           winners, start_error, aborted, nights>>

\* one iteration of the detective loop: player_id answers
\* choose_investigation_target, and the result is read off a sampled universe
TarInvestigate(player_id, choice) ==
    /\ phase = "Night"
    /\ pc = "investigate"
    /\ player_id \in (1..Len(secret_ids)) \ done
    /\ IF player_id \notin alive(multiverse) \/ choice = None
       THEN /\ Visited("investigate", player_id, multiverse)
            /\ asked' = IF player_id \in alive(multiverse)
                        THEN Ask(asked, "investigate", player_id) ELSE asked
            /\ UNCHANGED <<phase, player_names, secret_ids, multiverse, last_heals,
                           night_action_results, winners, start_error, current_heals,
                           aborted, nights>>
       ELSE IF Position(secret_ids, choice[1]) = None
       THEN Abort("investigated player not in game")
       ELSE LET target_id == Position(secret_ids, choice[1])[1]
                samples == {k \in 1..Len(multiverse) :
                               TarDetectiveIn(multiverse[k], player_id)}
            IN
            IF samples = {}
            THEN /\ Visited("investigate", player_id, multiverse)
                 /\ asked' = Ask(asked, "investigate", player_id)
                 /\ UNCHANGED <<phase, player_names, secret_ids, multiverse, last_heals,
                                night_action_results, winners, start_error, current_heals,
                                aborted, nights>>
            ELSE IF night_action_results[player_id] # None
            THEN Abort("multiple night action results for one player")
            ELSE \E sample \in samples :
                 LET investigated_faction == multiverse[sample].factions[target_id]
                     kept == SelectSeq(multiverse, LAMBDA universe :
                                 TarInvestigationKeeps(universe, player_id, target_id,
                                                       investigated_faction))
                 IN
                 /\ night_action_results' =
                        [night_action_results EXCEPT ![player_id] = Some(investigated_faction)]
                 /\ multiverse' = kept
                 /\ Visited("investigate", player_id, kept)
                 /\ asked' = Ask(asked, "investigate", player_id)
                 /\ UNCHANGED <<phase, player_names, secret_ids, last_heals, winners,
                                start_error, current_heals, aborted, nights>>

\* one iteration of the werewolf loop: player_id answers choose_werewolf_kill_target
TarKill(player_id, target) ==
    /\ phase = "Night"
    /\ pc = "kill"
    /\ player_id \in (1..Len(secret_ids)) \ done
    /\ IF player_id \notin alive(multiverse)
       THEN /\ Visited("kill", player_id, multiverse)
            /\ UNCHANGED asked
            /\ UNCHANGED <<phase, player_names, secret_ids, multiverse, last_heals,
                           night_action_results, winners, start_error, current_heals,
                           aborted, nights>>
       ELSE IF Position(secret_ids, target) = None
       THEN Abort("killed player not in game")
       ELSE LET target_id == Position(secret_ids, target)[1] IN
            /\ multiverse' = [k \in 1..Len(multiverse) |->
                                TarKillUniverse(multiverse[k], player_id, target_id)]
            /\ Visited("kill", player_id, multiverse)
            /\ asked' = Ask(asked, "kill", player_id)
            /\ UNCHANGED <<phase, player_names, secret_ids, last_heals, night_action_results,
                           winners, start_error, current_heals, aborted, nights>>

\* the tail of resolve_tar
TarDawn ==
    /\ phase = "Night"
    /\ pc = "dawn"
    /\ Dawn(multiverse, current_heals, night_action_results, nights)

\* ------------------------------------------------------------------ Night: resolve_nar
Heal(src, tgt) == [kind |-> "Heal", src |-> src, tgt |-> tgt]
Investigate(src, tgt) == [kind |-> "Investigate", src |-> src, tgt |-> tgt]
Kill(src, tgt) == [kind |-> "Kill", src |-> src, tgt |-> tgt]

\* the test for an earlier action of the source that never finds one
HasAction_NeverFound(result, kind, src_idx) == FALSE

HasAction(result, kind, src_idx) ==
    \E i \in 1..Len(result) : result[i].kind = kind /\ result[i].src = src_idx

\* sanitization that only replaces the names by ids
SanitizeOne_NamesOnly(result, action) ==
    LET src == Position(secret_ids, action.src)
        tgt == Position(secret_ids, action.tgt)
    IN  IF src = None \/ tgt = None THEN result
        ELSE Append(result, [kind |-> action.kind, src |-> src[1], tgt |-> tgt[1]])

\* "remove illegal actions": the action is kept (with ids for names) or dropped
SanitizeOne(result, action) ==
    LET src == Position(secret_ids, action.src)
        tgt == Position(secret_ids, action.tgt)
        living == alive(multiverse)
    IN  IF src = None \/ tgt = None THEN result
        ELSE IF action.kind = "Heal"
        THEN IF src[1] \notin living \/ tgt[1] \notin living THEN result
             ELSE IF HasAction(result, "Heal", src[1]) THEN result
             ELSE IF last_heals[src[1]] # Some(tgt[1])
                  THEN Append(result, Heal(src[1], tgt[1]))
                  ELSE result
        ELSE IF action.kind = "Investigate"
        THEN IF src[1] \notin living THEN result
             ELSE IF HasAction(result, "Investigate", src[1]) THEN result
             ELSE Append(result, Investigate(src[1], tgt[1]))
        ELSE IF src[1] \notin living \/ tgt[1] \notin living THEN result
             ELSE IF HasAction(result, "Kill", src[1]) THEN result
             ELSE Append(result, Kill(src[1], tgt[1]))

RECURSIVE RemoveIllegal(_, _)
RemoveIllegal(result, night_actions) ==
    IF night_actions = << >> THEN result
    ELSE RemoveIllegal(SanitizeOne(result, Head(night_actions)), Tail(night_actions))

\* sanitization that adds nothing for the silent
AddMissing_NothingAdded(result, secret_id) == {result}

\* "add missing compulsory actions": a random kill for every silent living
\* player, in secret id order; the set of all outcomes
RECURSIVE AddMissing(_, _)
AddMissing(result, secret_id) ==
    IF secret_id > Len(secret_ids) THEN {result}
    ELSE IF secret_id \in alive(multiverse) /\ ~HasAction(result, "Kill", secret_id)
    THEN UNION {AddMissing(Append(result, Kill(secret_id, random_id)), secret_id + 1) :
                    random_id \in alive(multiverse)}
    ELSE AddMissing(result, secret_id + 1)

sanitized_night_actions(night_actions) == AddMissing(RemoveIllegal(<< >>, night_actions), 1)

NarCanHeal(universe, src_idx, tgt_idx) ==
    /\ universe.roles[src_idx] = Healer
    /\ universe.alive[src_idx]
    /\ universe.alive[tgt_idx]

NarDetectiveIn(universe, src_idx) ==
    universe.roles[src_idx] = Detective /\ universe.alive[src_idx]

NarInvestigationKeeps(universe, src_idx, tgt_idx, investigated_faction) ==
    ~(/\ universe.roles[src_idx] = Detective
      /\ universe.alive[src_idx]
      /\ universe.factions[tgt_idx] # investigated_faction)

NarCanKill(universe, src_idx, tgt_idx) ==
    /\ IF IsWerewolf(universe.roles[src_idx])
       THEN \A i \in 1..Len(universe.roles) :
                IF IsWerewolf(universe.roles[i])
                THEN universe.roles[i].rank >= universe.roles[src_idx].rank
                     \/ ~universe.alive[i]
                ELSE TRUE
       ELSE FALSE
    /\ universe.alive[src_idx]
    /\ universe.alive[tgt_idx]

\* the locals of resolve_nar while it walks the action list; msg is the panic
\* message once it has aborted
NarLocals(mv, heals, results) ==
    [msg |-> None, mv |-> mv, current_heals |-> heals, night_action_results |-> results]
NarPanic(msg) ==
    [msg |-> Some(msg), mv |-> << >>, current_heals |-> << >>, night_action_results |-> << >>]

\* one iteration of the loop over the sanitized actions: the set of outcomes
NarAction(st, action) ==
    IF action.kind = "Heal"
    THEN {NarLocals(
            [k \in 1..Len(st.mv) |->
                IF NarCanHeal(st.mv[k], action.src, action.tgt)
                THEN heal(st.mv[k], action.tgt) ELSE st.mv[k]],
            [st.current_heals EXCEPT ![action.src] = Some(action.tgt)],
            st.night_action_results)}
    ELSE IF action.kind = "Investigate"
    THEN LET samples == {k \in 1..Len(st.mv) : NarDetectiveIn(st.mv[k], action.src)} IN
         IF samples = {} THEN {st}
         ELSE IF st.night_action_results[action.src] # None
         THEN {NarPanic("multiple night action results for one player")}
         ELSE {LET investigated_faction == st.mv[sample].factions[action.tgt] IN
               NarLocals(
                 SelectSeq(st.mv, LAMBDA universe :
                     NarInvestigationKeeps(universe, action.src, action.tgt,
                                           investigated_faction)),
                 st.current_heals,
                 [st.night_action_results EXCEPT ![action.src] = Some(investigated_faction)])
               : sample \in samples}
    ELSE {NarLocals(
            [k \in 1..Len(st.mv) |->
                IF NarCanKill(st.mv[k], action.src, action.tgt)
                THEN kill(st.mv[k], action.tgt, TRUE) ELSE st.mv[k]],
            st.current_heals,
            st.night_action_results)}

RECURSIVE NarActions(_, _)
NarActions(st, actions) ==
    IF actions = << >> \/ st.msg # None THEN {st}
    ELSE UNION {NarActions(next, Tail(actions)) : next \in NarAction(st, Head(actions))}

NightActions(kinds, names) ==
    {[kind |-> kind, src |-> src, tgt |-> tgt] : kind \in kinds, src \in names, tgt \in names}
BatchLists == UNION {[1..n -> NightActions({"Heal", "Investigate", "Kill"}, Names)] :
                        n \in 0..MaxBatch}

\* resolve_nar up to the death list, applied to the sanitized actions: the set
\* of outcomes
NarLoops(mv, actions) ==
    NarActions(NarLocals(ResetLists(mv), NoOptions(num_players(mv)), NoOptions(num_players(mv))),
               actions)

resolve_nar(night_actions, max_nights) ==
    /\ phase = "Night"
    /\ pc = "idle"
    /\ nights < max_nights
    /\ \E actions \in sanitized_night_actions(night_actions) :
       \E st \in NarActions(NarLocals(ResetLists(multiverse), NoOptions(Len(secret_ids)),
                                      NoOptions(Len(secret_ids))), actions) :
           IF st.msg # None
           THEN Abort(st.msg[1])
           ELSE Dawn(st.mv, st.current_heals, st.night_action_results, nights + 1)

\* ------------------------------------------------------------------ Day
\* can_lynch that only looks the player up
can_lynch_AnyPlayer(lynch_target) ==
    Position(secret_ids, lynch_target) # None

can_lynch(lynch_target) ==
    IF Position(secret_ids, lynch_target) = None THEN FALSE
    ELSE Position(secret_ids, lynch_target)[1] \in alive(multiverse)

\* the lynch filter turned around: the universes where the target is dead stay
LynchUniverses_DeadStay(mv, lynch_id) ==
    LET kept == SelectSeq(mv, LAMBDA universe : ~universe.alive[lynch_id])
    IN  [k \in 1..Len(kept) |-> kill(kept[k], lynch_id, FALSE)]

\* lynch that keeps each universe twice, with the target lynched and not
LynchUniverses_LynchedOrNot(mv, lynch_id) ==
    LET kept == SelectSeq(mv, LAMBDA universe : universe.alive[lynch_id])
    IN  kept \o [k \in 1..Len(kept) |-> kill(kept[k], lynch_id, FALSE)]

LynchUniverses(mv, lynch_id) ==
    LET kept == SelectSeq(mv, LAMBDA universe : universe.alive[lynch_id])
    IN  [k \in 1..Len(kept) |-> kill(kept[k], lynch_id, FALSE)]

\* what lynch does to the Multiverse: the set of outcomes over the universes
\* collapse_roles samples; ok is FALSE when lynch panics
LynchOutcomes(lynch_target) ==
    IF Position(secret_ids, lynch_target) = None
    THEN {Paradox}
    ELSE collapse_roles(LynchUniverses(multiverse, Position(secret_ids, lynch_target)[1]))

lynch(lynch_target) ==
    /\ phase = "Day"
    /\ \E out \in LynchOutcomes(lynch_target) :
            IF Position(secret_ids, lynch_target) = None
            THEN Abort("lynched player not in game")
            ELSE IF ~out.ok
            THEN Abort("paradox created while collapsing roles")
            ELSE /\ IF game_over(out.mv, FALSE)
                    THEN Complete(secret_ids, out.mv)
                    ELSE /\ phase' = "Night"
                         /\ multiverse' = out.mv
                         /\ night_action_results' = << >>
                         /\ UNCHANGED <<secret_ids, last_heals, winners, pc, done, asked,
                                        current_heals>>
                 /\ UNCHANGED <<player_names, start_error, aborted, nights>>

\* no_lynch that ends the game as soon as one universe is over
no_lynch_EndsOnAnyUniverse ==
    /\ phase = "Day"
    /\ IF \E k \in 1..Len(multiverse) : UniverseGameOver(multiverse[k], FALSE)
       THEN Complete(secret_ids, multiverse)
       ELSE /\ phase' = "Night"
            /\ night_action_results' = << >>
            /\ UNCHANGED <<secret_ids, multiverse, last_heals, winners, pc, done, asked,
                           current_heals>>
    /\ UNCHANGED <<player_names, start_error, aborted, nights>>

\* no_lynch that forgets the heal targets of the night before
no_lynch_HealsForgotten ==
    /\ phase = "Day"
    /\ IF game_over(multiverse, FALSE)
       THEN Complete(secret_ids, multiverse)
       ELSE /\ phase' = "Night"
            /\ night_action_results' = << >>
            /\ last_heals' = NoOptions(Len(secret_ids))
            /\ UNCHANGED <<secret_ids, multiverse, winners, pc, done, asked,
                           current_heals>>
    /\ UNCHANGED <<player_names, start_error, aborted, nights>>

no_lynch ==
    /\ phase = "Day"
    /\ IF game_over(multiverse, FALSE)
       THEN Complete(secret_ids, multiverse)
       ELSE /\ phase' = "Night"
            /\ night_action_results' = << >>
            /\ UNCHANGED <<secret_ids, multiverse, last_heals, winners, pc, done, asked,
                           current_heals>>
    /\ UNCHANGED <<player_names, start_error, aborted, nights>>

\* the lynch step of run_with_roles: lynch is only called when can_lynch allows it
RunLynch(name) == can_lynch(name) /\ lynch(name)

Options(S) == {None} \cup {Some(x) : x \in S}

Next ==
    \/ \E player_id \in Names : sign_up(player_id)
    \/ \E player_id \in Names : remove_player(player_id)
    \/ \E roles \in RoleLists : \E order \in Shuffles(player_names) : start(roles, order)
    \/ \E night_actions \in BatchLists : resolve_nar(night_actions, MaxNights)
    \/ TarBegin(MaxNights)
    \/ \E player_id \in 1..Len(secret_ids) : \E choice \in Options(AnswerNames) :
           TarHeal(player_id, choice)
    \/ \E player_id \in 1..Len(secret_ids) : \E choice \in Options(AnswerNames) :
           TarInvestigate(player_id, choice)
    \/ \E player_id \in 1..Len(secret_ids) : \E target \in AnswerNames :
           TarKill(player_id, target)
    \/ TarDawn
    \/ \E name \in AnswerNames : RunLynch(name)
    \/ no_lynch

Spec == Init /\ [][Next]_vars

\* Longer games: two nights of temporal resolution, over fewer role lists and
\* fewer answers.
MaxLongNights == 2
LongRoleLists == {<<Healer, Werewolf(0)>>, <<Werewolf(0), Werewolf(0)>>}
LongNames == {"a", "b"}

NextLong ==
    \/ \E player_id \in Names : sign_up(player_id)
    \/ \E player_id \in Names : remove_player(player_id)
    \/ \E roles \in LongRoleLists : \E order \in Shuffles(player_names) : start(roles, order)
    \/ TarBegin(MaxLongNights)
    \/ \E player_id \in 1..Len(secret_ids) : \E choice \in Options(LongNames) :
           TarHeal(player_id, choice)
    \/ \E player_id \in 1..Len(secret_ids) : \E target \in LongNames :
           TarKill(player_id, target)
    \/ TarDawn
    \/ \E name \in Names : RunLynch(name)
    \/ no_lynch

SpecLong == Init /\ [][NextLong]_vars

\* ================================================================== claims
ParadoxMessage == "paradox created while collapsing roles"
Players == 1..Len(secret_ids)
InGame == phase \in {"Night", "Day"}

\* the universes in which player_id is a living Detective
LivingDetective(mv, player_id) ==
    {k \in 1..Len(mv) : mv[k].roles[player_id] = Detective /\ mv[k].alive[player_id]}

\* the universe of mv with the role assignment of universe (role assignments
\* are pairwise distinct for the role lists of SpecLong)
SameWorld(old, new) == old.roles = new.roles

\* ------------------------------------------------------------------ C1
\* C1: on every path of legal operations the Multiverse of a running or
\* completed game holds at least one universe, and the program never aborts
\* with the paradox of collapse_roles.
C1_MultiverseNeverEmpty ==
    /\ phase \in {"Night", "Day", "Complete"} => multiverse # << >>
    /\ aborted # Some(ParadoxMessage)

\* a game with a Detective that went through a night and a lynch and is left
\* with a single universe
C1_Witness ==
    /\ phase = "Night"
    /\ nights = 1
    /\ Len(multiverse) = 1
    /\ \E p \in Players : multiverse[1].roles[p] = Detective

\* ------------------------------------------------------------------ C2
\* C2: in every step of a running game, a universe that remains in the
\* Multiverse has no player alive who was dead in it before the step.
C2_AliveOnlyFalls ==
    [][(InGame /\ phase' \in {"Night", "Day", "Complete"}) =>
         \A j \in 1..Len(multiverse') : \A k \in 1..Len(multiverse) :
             SameWorld(multiverse[k], multiverse'[j]) =>
                 \A p \in Players : multiverse'[j].alive[p] => multiverse[k].alive[p]]_vars

\* after the second night some universe has two dead players
C2_Witness ==
    /\ phase = "Day"
    /\ nights = 2
    /\ \E k \in 1..Len(multiverse) : \E p, q \in Players :
           p # q /\ ~multiverse[k].alive[p] /\ ~multiverse[k].alive[q]

\* ------------------------------------------------------------------ C3
\* the narrowing the claim describes: f is the faction of target t in some
\* universe where p is a living Detective, and exactly the universes where p is
\* a living Detective and t has another faction are gone
ExactNarrowing(before, after, p, t, f) ==
    LET removed == {k \in LivingDetective(before, p) : before[k].factions[t] # f}
        kept == SelectSeq([k \in 1..Len(before) |-> k], LAMBDA k : k \notin removed)
    IN  /\ \E k \in LivingDetective(before, p) : before[k].factions[t] = f
        /\ after = [i \in 1..Len(kept) |-> before[kept[i]]]

C3_TarStep ==
    \A p \in Players : \A name \in Names :
        (/\ TarInvestigate(p, Some(name))
         /\ p \in alive(multiverse)
         /\ LivingDetective(multiverse, p) # {})
        => /\ night_action_results'[p] # None
           /\ ExactNarrowing(multiverse, multiverse', p, Position(secret_ids, name)[1],
                             night_action_results'[p][1])

C3_NarAction ==
    (InGame /\ multiverse # << >>) =>
        \A src, tgt \in Players :
            LivingDetective(multiverse, src) # {} =>
                \A out \in NarAction(NarLocals(multiverse, NoOptions(Len(secret_ids)),
                                               NoOptions(Len(secret_ids))),
                                     Investigate(src, tgt)) :
                    /\ out.msg = None
                    /\ out.night_action_results[src] # None
                    /\ ExactNarrowing(multiverse, out.mv, src, tgt,
                                      out.night_action_results[src][1])

C4_HealedSurviveTheNight ==
    phase = "Day" =>
        \A k \in 1..Len(multiverse) : \A p \in Range(multiverse[k].heals) :
            multiverse[k].alive[p]

\* ------------------------------------------------------------------ C5
\* the claim's condition for a werewolf kill of t by p to count in a universe
SeniorWerewolfKill(universe, p, t) ==
    /\ universe.alive[p]
    /\ IsWerewolf(universe.roles[p])
    /\ \A q \in 1..Len(universe.roles) :
           (universe.alive[q] /\ IsWerewolf(universe.roles[q]))
               => universe.roles[p].rank <= universe.roles[q].rank
    /\ universe.alive[t]
    /\ t \notin Range(universe.heals)

KillRecorded(universe, p, t) ==
    IF SeniorWerewolfKill(universe, p, t)
    THEN [universe EXCEPT !.kills = Append(@, t)]
    ELSE universe

C5_TarStep ==
    \A p \in Players : \A name \in Names :
        (TarKill(p, name) /\ p \in alive(multiverse))
        => multiverse' = [k \in 1..Len(multiverse) |->
                             KillRecorded(multiverse[k], p, Position(secret_ids, name)[1])]

C5_NarAction ==
    (InGame /\ multiverse # << >>) =>
        \A src, tgt \in Players :
            LET st == NarLocals(multiverse, NoOptions(Len(secret_ids)),
                                NoOptions(Len(secret_ids)))
            IN  NarAction(st, Kill(src, tgt)) =
                    {[st EXCEPT !.mv = [k \in 1..Len(multiverse) |->
                                           KillRecorded(multiverse[k], src, tgt)]]}

\* C5: a werewolf-kill choice of p on t adds t to the pending kills of exactly
\* the universes where p is alive and the lowest-ranked living Werewolf, t is
\* alive and t is not protected, and changes no other universe.
C5_KillBySeniorWerewolf == [][C5_TarStep]_vars /\ []C5_NarAction

\* in the second night the junior Werewolf, its senior dead, has a kill recorded
C5_Witness ==
    /\ phase = "Night"
    /\ nights = 2
    /\ pc \in {"kill", "dawn"}
    /\ \E k \in 1..Len(multiverse) : \E p, q \in Players :
           /\ multiverse[k].roles[p] = Werewolf(1) /\ multiverse[k].alive[p]
           /\ multiverse[k].roles[q] = Werewolf(0) /\ ~multiverse[k].alive[q]
           /\ multiverse[k].kills # << >>

\* ------------------------------------------------------------------ C6
HealRecorded(universe, p, t) ==
    IF universe.roles[p] = Healer /\ universe.alive[p] /\ universe.alive[t]
    THEN [universe EXCEPT !.heals = Append(@, t)]
    ELSE universe

C6_TarStep ==
    \A p \in Players : \A name \in Names :
        (TarHeal(p, Some(name)) /\ p \in alive(multiverse))
        => multiverse' = [k \in 1..Len(multiverse) |->
                             HealRecorded(multiverse[k], p, Position(secret_ids, name)[1])]

C6_NarAction ==
    (InGame /\ multiverse # << >>) =>
        \A src, tgt \in Players :
            LET st == NarLocals(multiverse, NoOptions(Len(secret_ids)),
                                NoOptions(Len(secret_ids)))
            IN  \A out \in NarAction(st, Heal(src, tgt)) :
                    out.mv = [k \in 1..Len(multiverse) |->
                                 HealRecorded(multiverse[k], src, tgt)]

C7_NoRepeatedHeal ==
    (phase = "Night" /\ pc # "idle") =>
        \A p \in Players :
            (last_heals[p] # None /\ current_heals[p] = last_heals[p]) =>
                \A k \in 1..Len(multiverse) :
                    (multiverse[k].roles[p] = Healer /\ multiverse[k].alive[p])
                        => last_heals[p][1] \notin Range(multiverse[k].heals)

\* ------------------------------------------------------------------ C8
C8_LynchStep ==
    \A name \in Names :
        (phase = "Day" /\ multiverse' # multiverse /\ RunLynch(name)) =>
            LET t == Position(secret_ids, name)[1] IN
            /\ phase' \in {"Night", "Complete"}
            /\ \A j \in 1..Len(multiverse') : \E k \in 1..Len(multiverse) :
                   /\ multiverse[k].alive[t]
                   /\ multiverse'[j] = [multiverse[k] EXCEPT !.alive[t] = FALSE]
            /\ \A j \in 1..Len(multiverse') : ~multiverse'[j].alive[t]
            /\ t \notin alive(multiverse')
            /\ role(multiverse', t) # None

\* C8: after lynch(t) with can_lynch(t), every remaining universe is a universe
\* in which t was alive, now with t dead (protected by a heal or not); t is not
\* in alive() and role(t) is unambiguous.
C8_LynchKillsTarget == [][C8_LynchStep]_vars

\* a player protected during the night, and not attacked, is dead after the lynch
C8_Witness ==
    /\ phase = "Night"
    /\ nights = 1
    /\ \E k \in 1..Len(multiverse) : \E t \in Players :
           /\ t \in Range(multiverse[k].heals)
           /\ t \notin Range(multiverse[k].kills)
           /\ ~multiverse[k].alive[t]

\* ------------------------------------------------------------------ C9
MaybeAlivePlayer(name) ==
    \E i \in Players : secret_ids[i] = name /\ \E k \in 1..Len(multiverse) : multiverse[k].alive[i]

\* C9: can_lynch(p) holds exactly for the players of the game alive in some
\* universe; lynch(p) runs to its end for every sampled universe when
\* can_lynch(p) holds and panics when it does not; and the run loop, which asks
\* can_lynch first, never ends in a panic of lynch.
C9_LynchPrecondition ==
    /\ phase = "Day" =>
           \A name \in AnswerNames :
               /\ can_lynch(name) <=> MaybeAlivePlayer(name)
               /\ can_lynch(name) <=> \A out \in LynchOutcomes(name) : out.ok
               /\ ~can_lynch(name) <=> \A out \in LynchOutcomes(name) : ~out.ok
    /\ aborted # Some("lynched player not in game")
    /\ aborted # Some(ParadoxMessage)

\* a Day in which a player of the game is dead in every universe
C9_Witness ==
    /\ phase = "Day"
    /\ \E name \in Range(secret_ids) : ~can_lynch(name)

\* ------------------------------------------------------------------ C10
\* C10: whenever collapse_roles has returned (after dawn, after a lynch, at the
\* end of the game), each player dead in every universe has one role in all.
C10_DeadHaveOneRole ==
    (phase \in {"Night", "Day", "Complete"} /\ pc = "idle" /\ multiverse # << >>) =>
        \A p \in Players : p \notin alive(multiverse) => role(multiverse, p) # None

\* several universes remain after a lynch and a player is dead in all of them
C10_Witness ==
    /\ phase = "Night"
    /\ pc = "idle"
    /\ nights = 1
    /\ Len(multiverse) > 1
    /\ Players \ alive(multiverse) # {}

\* ------------------------------------------------------------------ C11
\* the Multiverses collapse_roles is called on from the current state: the
\* death list applied (dawn), and the lynch of each player who can be lynched
CollapseInputs ==
    {[k \in 1..Len(multiverse) |-> KillDeathList(multiverse[k])]}
        \cup {LynchUniverses(multiverse, t) : t \in alive(multiverse)}

\* C11: whatever collapse_roles returns, a second run on the result returns
\* that same Multiverse, for every universe the second run may sample.
C11_CollapseIdempotent ==
    (InGame /\ (phase = "Day" \/ pc = "dawn")) =>
        \A input \in CollapseInputs : \A first \in collapse_roles(input) :
            first.ok => collapse_roles(first.mv) = {[ok |-> TRUE, mv |-> first.mv]}

\* a Day in which the lynch of some player makes collapse_roles remove a universe
C11_Witness ==
    /\ phase = "Day"
    /\ \E t \in alive(multiverse) :
           \E first \in collapse_roles(LynchUniverses(multiverse, t)) :
               first.ok /\ Len(first.mv) < Len(LynchUniverses(multiverse, t))

\* ------------------------------------------------------------------ C12
\* the win conditions and the end condition of one universe, as the claims
\* word them
VillageWins(universe) ==
    /\ \E i \in 1..Len(universe.alive) : universe.factions[i] = Village /\ universe.alive[i]
    /\ ~\E i \in 1..Len(universe.alive) : universe.factions[i] = Werewolves /\ universe.alive[i]

WerewolvesWin(universe) ==
    {i \in 1..Len(universe.alive) : universe.factions[i] = Village /\ universe.alive[i]} = {}

EndCondition(universe) ==
    LET living == {i \in 1..Len(universe.alive) : universe.alive[i]}
    IN  living = {} \/ Cardinality(living) < 2 \/ VillageWins(universe) \/ WerewolvesWin(universe)

\* C12: whenever start, a night resolution, lynch or no_lynch has returned, the
\* state is Complete if every remaining universe meets its end condition, and
\* Night or Day if some universe does not.
C12_CompleteIffAllOver ==
    /\ (phase \in {"Night", "Day"} /\ pc = "idle") =>
           \E k \in 1..Len(multiverse) : ~EndCondition(multiverse[k])
    /\ phase = "Complete" => \A k \in 1..Len(multiverse) : EndCondition(multiverse[k])

\* the game goes on after a night although it is over in one of the universes
C12_Witness ==
    /\ phase = "Day"
    /\ \E k \in 1..Len(multiverse) : EndCondition(multiverse[k])
    /\ \E k \in 1..Len(multiverse) : ~EndCondition(multiverse[k])

\* ------------------------------------------------------------------ C13
\* Faction::wincon on its own: Complete::new applied to a Multiverse of one
\* universe, for every faction assignment and every set of living players of up
\* to MaxUnitPlayers players.
MaxUnitPlayers == 3

UnitUniverse(factions, living) ==
    [alive |-> living,
     factions |-> factions,
     roles |-> [i \in 1..Len(factions) |->
                   IF factions[i] = Village THEN Villager ELSE Werewolf(0)],
     heals |-> << >>,
     kills |-> << >>]

InitUnit ==
    /\ \E n \in 2..MaxUnitPlayers : \E factions \in [1..n -> Factions] :
       \E living \in [1..n -> BOOLEAN] :
           /\ multiverse = <<UnitUniverse(factions, living)>>
           /\ secret_ids = SubSeq(<<"a", "b", "c", "d">>, 1, n)
           /\ last_heals = NoOptions(n)
           /\ night_action_results = NoOptions(n)
    /\ phase = "Day"
    /\ player_names = {}
    /\ winners = {}
    /\ start_error = None
    /\ pc = "idle"
    /\ done = {}
    /\ asked = << >>
    /\ current_heals = << >>
    /\ aborted = None
    /\ nights = 0

\* Complete::new on the universe drawn
JudgeUnit ==
    /\ phase = "Day"
    /\ Complete(secret_ids, multiverse)
    /\ UNCHANGED <<player_names, start_error, aborted, nights>>

NextUnit == JudgeUnit

SpecUnit == InitUnit /\ [][NextUnit]_vars

\* C13: in every universe, Village's wincon is "a Village player is alive and
\* no Werewolves player is", Werewolves' wincon is "no Village player is alive";
\* with nobody alive Werewolves' holds and Village's does not; and the winners
\* Complete::new reads off the universe are the players of the factions whose
\* condition holds.
C13_WinConditions ==
    \A k \in 1..Len(multiverse) :
        LET universe == multiverse[k]
            players == 1..Len(universe.alive)
        IN  /\ wincon(Village, universe) <=> VillageWins(universe)
            /\ wincon(Werewolves, universe) <=> WerewolvesWin(universe)
            /\ (\A i \in players : ~universe.alive[i]) =>
                   wincon(Werewolves, universe) /\ ~wincon(Village, universe)
            /\ phase = "Complete" =>
                   winners = {secret_ids[i] : i \in
                       {j \in players :
                           \/ universe.factions[j] = Village /\ VillageWins(universe)
                           \/ universe.factions[j] = Werewolves /\ WerewolvesWin(universe)}}

\* nobody is alive, both factions have players, and the Werewolves have won
C13_Witness ==
    /\ phase = "Complete"
    /\ \A i \in 1..Len(multiverse[1].alive) : ~multiverse[1].alive[i]
    /\ \E i \in 1..Len(multiverse[1].alive) : multiverse[1].factions[i] = Village
    /\ winners # {}

\* ------------------------------------------------------------------ C14
\* the players, alive or dead, whose faction in the universe has won in it
WinnersOf(universe) ==
    {secret_ids[i] : i \in
        {j \in 1..Len(universe.alive) :
            \/ universe.factions[j] = Village /\ VillageWins(universe)
            \/ universe.factions[j] = Werewolves /\ WerewolvesWin(universe)}}

\* C14: the winners of a Complete state are the winners of one universe of the
\* Multiverse the game ended with.
C14_WinnersOfOneUniverse ==
    phase = "Complete" =>
        \E k \in 1..Len(multiverse) : winners = WinnersOf(multiverse[k])

\* the game ended after a night with universes won by different players, and a
\* dead player is among the winners
C14_Witness ==
    /\ phase = "Complete"
    /\ nights = 1
    /\ \E j, k \in 1..Len(multiverse) : WinnersOf(multiverse[j]) # WinnersOf(multiverse[k])
    /\ \E k \in 1..Len(multiverse) : \E i \in Players :
           /\ winners = WinnersOf(multiverse[k])
           /\ secret_ids[i] \in winners
           /\ ~multiverse[k].alive[i]

\* ------------------------------------------------------------------ C15
\* the steps the phase machine may take.  A failed start and a panic yield no
\* phase ("StartFailed", "Aborted"); a step from Night to Night is a step
\* inside one run of resolve_tar.
C15_Step ==
    /\ phase = "Signups" =>
           /\ phase' \in {"Signups", "Night", "Complete", "StartFailed"}
           /\ phase' \in {"Night", "Complete"} =>
                  \E roles \in RoleLists : \E order \in Shuffles(player_names) :
                      start(roles, order)
    /\ phase = "Night" =>
           /\ phase' \in {"Night", "Day", "Complete", "Aborted"}
           /\ phase' = "Night" => pc' # "idle" /\ nights' = nights + (IF pc = "idle" THEN 1 ELSE 0)
           /\ phase' \in {"Day", "Complete"} =>
                  \/ pc = "dawn" /\ nights' = nights
                  \/ pc = "idle" /\ nights' = nights + 1
    /\ phase = "Day" =>
           /\ phase' \in {"Night", "Complete"}
           /\ pc' = "idle"
           /\ no_lynch \/ \E name \in Names : lynch(name)
    /\ phase \notin {"Complete", "StartFailed", "Aborted"}

\* C15: Signups goes to Night or Complete by start; Night goes to Day or
\* Complete by a night resolution; Day goes to Night or Complete by lynch or
\* no_lynch; Complete is never left; Night and Day alternate.
C15_PhaseMachine == [][C15_Step]_vars

\* a Night that follows a Day
C15_Witness ==
    /\ phase = "Night"
    /\ pc = "idle"
    /\ nights = 1

\* ------------------------------------------------------------------ start on its own
\* Signups and start alone, with up to four players and role lists longer than
\* the player count.
MaxStartRoles == 4
StartNames == {"a", "b", "c", "d"}
StartRoleTokens == {Detective, Healer, Villager, Werewolf(0)}
StartRoleLists == UNION {[1..n -> StartRoleTokens] : n \in 0..MaxStartRoles}

NextStart ==
    \/ \E player_id \in StartNames : sign_up(player_id)
    \/ \E player_id \in StartNames : remove_player(player_id)
    \/ \E roles \in StartRoleLists : \E order \in Shuffles(player_names) : start(roles, order)

SpecStart == Init /\ [][NextStart]_vars

\* ------------------------------------------------------------------ C16
\* what the claim expects of start with n players signed up and r roles
StartAsClaimed(n, r) ==
    IF n < 3
    THEN /\ phase' = "StartFailed"
         /\ start_error' = Some([error |-> "NotEnoughPlayers", required |-> 3, found |-> n])
         /\ multiverse' = << >>
         /\ secret_ids' = << >>
    ELSE IF r > n
    THEN /\ phase' = "StartFailed"
         /\ start_error' = Some([error |-> "RolesCount", required |-> n, found |-> r])
         /\ multiverse' = << >>
         /\ secret_ids' = << >>
    ELSE /\ phase' \in {"Night", "Complete"}
         /\ start_error' = None
         /\ multiverse' # << >>
         /\ Len(secret_ids') = n

C16_Step ==
    (phase = "Signups" /\ phase' # "Signups") =>
        \A roles \in StartRoleLists : \A order \in Shuffles(player_names) :
            \/ StartAsClaimed(Cardinality(player_names), Len(roles))
            \/ ~start(roles, order)

\* C16: start fails with NotEnoughPlayers (required 3, found n) when n < 3,
\* with RolesCount (required n, found r) when n >= 3 and r > n, and succeeds
\* otherwise; a failed start leaves no Multiverse and no phase.
C16_StartErrors == [][C16_Step]_vars

\* start has refused four roles for three players
C16_Witness ==
    /\ phase = "StartFailed"
    /\ start_error = Some([error |-> "RolesCount", required |-> 3, found |-> 4])

\* ------------------------------------------------------------------ C17
\* the roles of the game, read off the first universe
HasWerewolf == \E i \in 1..Len(multiverse[1].roles) : IsWerewolf(multiverse[1].roles[i])
HasVillageSide == \E i \in 1..Len(multiverse[1].roles) : ~IsWerewolf(multiverse[1].roles[i])

\* C17: a start that succeeds yields Complete if the roles hold no Werewolf or
\* nothing but Werewolves (every initial universe is over), and otherwise Night
\* with everybody alive in every universe and no remembered heal target.
C17_StartOutcome ==
    /\ phase = "Complete" =>
           /\ ~HasWerewolf \/ ~HasVillageSide
           /\ \A k \in 1..Len(multiverse) : EndCondition(multiverse[k])
    /\ phase = "Night" =>
           /\ HasWerewolf /\ HasVillageSide
           /\ \E k \in 1..Len(multiverse) : ~EndCondition(multiverse[k])
           /\ \A k \in 1..Len(multiverse) : \A i \in 1..Len(secret_ids) :
                  multiverse[k].alive[i]
           /\ last_heals = [i \in 1..Len(secret_ids) |-> None]

\* a game of Werewolves only is over at its start
C17_Witness ==
    /\ phase = "Complete"
    /\ HasWerewolf
    /\ ~HasVillageSide

\* ------------------------------------------------------------------ C18
RECURSIVE FallingFactorial(_, _)
FallingFactorial(n, k) == IF k = 0 THEN 1 ELSE n * FallingFactorial(n - 1, k - 1)

\* every role of requested sits on as many players as it is requested times,
\* and the other players are Villagers
PlacesExactly(assignment, requested) ==
    /\ \A r \in Range(requested) :
           Cardinality({i \in 1..Len(assignment) : assignment[i] = r})
               = Cardinality({j \in 1..Len(requested) : requested[j] = r})
    /\ Cardinality({i \in 1..Len(assignment) : assignment[i] = Villager})
           = Len(assignment) - Len(requested)

\* C18: Multiverse::new with k requested roles and N players (k <= N) builds
\* N*(N-1)*...*(N-k+1) universes, each with the requested roles on k players
\* and Villagers elsewhere: for every role list and the players signed up
\* before start, and in the Multiverse start has built.
C18_UniverseCount ==
    /\ Len(MultiverseNew(<<Werewolf(0)>>, 3)) = 3
    /\ Len(MultiverseNew(<<Werewolf(0), Detective>>, 3)) = 6
    /\ phase = "Signups" =>
           \A roles \in StartRoleLists :
               LET requested == RenumberRoles(roles, 0)
                   N == Cardinality(player_names)
                   mv == MultiverseNew(requested, N)
               IN  Len(requested) <= N =>
                       /\ Len(mv) = FallingFactorial(N, Len(requested))
                       /\ \A k \in 1..Len(mv) : PlacesExactly(mv[k].roles, requested)
    /\ phase \in {"Night", "Complete"} =>
           LET N == Len(secret_ids)
               requested == SelectSeq(multiverse[1].roles, LAMBDA r : r # Villager)
           IN  /\ Len(multiverse) = FallingFactorial(N, Len(requested))
               /\ \A k \in 1..Len(multiverse) : PlacesExactly(multiverse[k].roles, requested)

\* four players, three or four roles: 24 universes
C18_Witness ==
    /\ phase = "Night"
    /\ Len(secret_ids) = 4
    /\ Len(multiverse) = 24

\* ------------------------------------------------------------------ C19
DistinctWorlds == \A j, k \in 1..Len(multiverse) : j # k => multiverse[j].roles # multiverse[k].roles

\* C19 as stated: the Multiverse start builds has no two universes with the
\* same role assignment, whatever role list start accepted.
C19_AllWorldsDistinct ==
    phase \in {"Night", "Complete"} => DistinctWorlds

\* C19 as amended: it has none when the role list holds no special role but
\* Werewolf more than once.
C19_DistinctWorlds ==
    (/\ phase \in {"Night", "Complete"}
     /\ \A r \in {Detective, Healer} :
            Cardinality({i \in 1..Len(multiverse[1].roles) : multiverse[1].roles[i] = r}) <= 1)
        => DistinctWorlds

\* three Werewolves and a Healer among four players: 24 distinct universes
C19_Witness ==
    /\ phase = "Night"
    /\ Len(multiverse) = 24
    /\ \E i, j \in 1..4 : multiverse[1].roles[i] = Werewolf(1) /\ multiverse[1].roles[j] = Werewolf(2)
    /\ DistinctWorlds

\* ------------------------------------------------------------------ C20
\* the default mapping, as the claim words it
FactionAsClaimed(r) ==
    IF r = Detective \/ r = Healer \/ r = Villager THEN Village
    ELSE Werewolves

FactionsFollowRoles ==
    \A k \in 1..Len(multiverse) : \A i \in 1..Len(multiverse[k].roles) :
        multiverse[k].factions[i] = FactionAsClaimed(multiverse[k].roles[i])

\* every universe after the step has the roles and the factions of a universe
\* before it
C20_Step ==
    multiverse # << >> =>
        \A j \in 1..Len(multiverse') : \E k \in 1..Len(multiverse) :
            /\ multiverse'[j].roles = multiverse[k].roles
            /\ multiverse'[j].factions = multiverse[k].factions

\* C20: in every universe of every reachable state each player's faction is
\* the default faction of the player's role in that universe (Detective, Healer
\* and Villager: Village; Werewolf: Werewolves), and no step of a game changes
\* a role or a faction of a universe.
C20_FactionsFollowRoles == [](FactionsFollowRoles) /\ [][C20_Step]_vars

\* a day after a night that killed, in a game with a Detective and a Werewolf
C20_Witness ==
    /\ phase = "Day"
    /\ \E k \in 1..Len(multiverse) : \E i, j, d \in 1..Len(secret_ids) :
           /\ multiverse[k].roles[i] = Detective
           /\ multiverse[k].roles[j] = Werewolf(0)
           /\ multiverse[k].factions[i] = Village
           /\ multiverse[k].factions[j] = Werewolves
           /\ ~multiverse[k].alive[d]

\* ------------------------------------------------------------------ resolve_tar as one function
\* the orders shuffled_players can produce
Orders(n) == {order \in [1..n -> 1..n] : \A i, j \in 1..n : i # j => order[i] # order[j]}

\* the answer of player_id read off a list of actions: None when there is none
ChoiceOf(actions, kind, player_id) ==
    IF HasAction(actions, kind, player_id)
    THEN Some((CHOOSE i \in 1..Len(actions) :
                   actions[i].kind = kind /\ actions[i].src = player_id))
    ELSE None

\* the healer loop, walked in order, with the answers of actions
RECURSIVE TarHealLoop(_, _, _)
TarHealLoop(mv, order, actions) ==
    IF order = << >> THEN mv
    ELSE LET player_id == Head(order)
             choice == ChoiceOf(actions, "Heal", player_id)
         IN  IF player_id \notin alive(mv) \/ choice = None
             THEN TarHealLoop(mv, Tail(order), actions)
             ELSE TarHealLoop([k \in 1..Len(mv) |->
                                  TarHealUniverse(mv[k], player_id, actions[choice[1]].tgt)],
                              Tail(order), actions)

\* the detective loop: the set of outcomes over the universes sampled
RECURSIVE TarInvestigateLoop(_, _, _)
TarInvestigateLoop(st, order, actions) ==
    IF order = << >> \/ st.msg # None THEN {st}
    ELSE LET player_id == Head(order)
             choice == ChoiceOf(actions, "Investigate", player_id)
             samples == {k \in 1..Len(st.mv) : TarDetectiveIn(st.mv[k], player_id)}
         IN  IF player_id \notin alive(st.mv) \/ choice = None \/ samples = {}
             THEN TarInvestigateLoop(st, Tail(order), actions)
             ELSE IF st.night_action_results[player_id] # None
             THEN {NarPanic("multiple night action results for one player")}
             ELSE UNION {
                 LET target_id == actions[choice[1]].tgt
                     investigated_faction == st.mv[sample].factions[target_id]
                 IN  TarInvestigateLoop(
                         NarLocals(
                             SelectSeq(st.mv, LAMBDA universe :
                                 TarInvestigationKeeps(universe, player_id, target_id,
                                                       investigated_faction)),
                             st.current_heals,
                             [st.night_action_results EXCEPT
                                  ![player_id] = Some(investigated_faction)]),
                         Tail(order), actions)
                 : sample \in samples}

\* the werewolf loop
RECURSIVE TarKillLoop(_, _, _)
TarKillLoop(mv, order, actions) ==
    IF order = << >> THEN mv
    ELSE LET player_id == Head(order)
             choice == ChoiceOf(actions, "Kill", player_id)
         IN  IF player_id \notin alive(mv) \/ choice = None
             THEN TarKillLoop(mv, Tail(order), actions)
             ELSE TarKillLoop([k \in 1..Len(mv) |->
                                  TarKillUniverse(mv[k], player_id, actions[choice[1]].tgt)],
                              Tail(order), actions)

\* resolve_tar up to the death list, the players answering as actions says and
\* every loop walking the players in order: the set of outcomes
TarLoops(mv, order, actions) ==
    LET reset == ResetLists(mv)
        healed == IF role_alive(reset, Healer) THEN TarHealLoop(reset, order, actions)
                  ELSE reset
        begin == NarLocals(healed, NoOptions(Len(order)), NoOptions(Len(order)))
        investigated == IF role_alive(healed, Detective)
                        THEN TarInvestigateLoop(begin, order, actions)
                        ELSE {begin}
    IN  {IF st.msg # None THEN st
         ELSE [st EXCEPT !.mv = TarKillLoop(st.mv, order, actions)] : st \in investigated}

\* what the players see of a night's outcome: the phase that follows, who
\* lives in which universe, and the investigation results
NightOutcome(next_phase, mv, results) ==
    [phase |-> next_phase,
     worlds |-> [k \in 1..Len(mv) |-> [roles |-> mv[k].roles, alive |-> mv[k].alive]],
     results |-> results]

\* the tail both resolutions share, from the locals st: the set of outcomes
DawnOutcomes(st) ==
    IF st.msg # None THEN {NightOutcome("Aborted", << >>, << >>)}
    ELSE {IF ~out.ok THEN NightOutcome("Aborted", << >>, << >>)
          ELSE IF game_over(out.mv, FALSE) THEN NightOutcome("Complete", out.mv, << >>)
          ELSE NightOutcome("Day", out.mv, st.night_action_results)
          : out \in collapse_roles([k \in 1..Len(st.mv) |-> KillDeathList(st.mv[k])])}

\* ------------------------------------------------------------------ C21
\* a batch of legal choices: nothing is dropped from it, nobody investigates
\* themselves or a player dead everywhere
LegalBatch(night_actions) ==
    /\ Len(RemoveIllegal(<< >>, night_actions)) = Len(night_actions)
    /\ \A i \in 1..Len(night_actions) :
           night_actions[i].kind = "Investigate" =>
               /\ night_actions[i].src # night_actions[i].tgt
               /\ Position(secret_ids, night_actions[i].tgt)[1] \in alive(multiverse)

NarOutcomes(actions) ==
    UNION {DawnOutcomes(st) :
               st \in NarActions(NarLocals(ResetLists(multiverse), NoOptions(Len(secret_ids)),
                                           NoOptions(Len(secret_ids))), actions)}

TarOutcomes(actions) ==
    UNION {DawnOutcomes(st) :
               st \in UNION {TarLoops(multiverse, order, actions) :
                                 order \in Orders(Len(secret_ids))}}

\* C21: a night resolved as a batch ends as the same night resolved in turns:
\* for every batch of legal choices, in whatever order it was submitted, and
\* every completion of it with the compulsory kills, resolve_nar can yield
\* exactly the next phases, universes and investigation results that
\* resolve_tar can yield when the players give the same answers.
C21_NarEqualsTar ==
    (phase = "Night" /\ pc = "idle") =>
        \A night_actions \in BatchLists :
            LegalBatch(night_actions) =>
                \A actions \in sanitized_night_actions(night_actions) :
                    NarOutcomes(actions) = TarOutcomes(actions)

\* ------------------------------------------------------------------ probability_table
UndeterminedFaction == "player is dead but does not have a determined faction"

\* probability_table that leaves the universes where the player is dead out of
\* the village count
probability_table_VillageAlive(mv) ==
    [player_idx \in 1..num_players(mv) |->
        IF player_idx \in alive(mv)
        THEN [kind |-> "Ok",
              village_universes |-> Cardinality({k \in 1..Len(mv) :
                    mv[k].factions[player_idx] = Village /\ mv[k].alive[player_idx]}),
              werewolves_universes |-> Cardinality({k \in 1..Len(mv) :
                    mv[k].factions[player_idx] = Werewolves}),
              dead_universes |-> Cardinality({k \in 1..Len(mv) : ~mv[k].alive[player_idx]}),
              universes |-> Len(mv)]
        ELSE IF faction(mv, player_idx) = None
        THEN [kind |-> "panic", msg |-> UndeterminedFaction]
        ELSE [kind |-> "Err", faction |-> faction(mv, player_idx)[1]]]

\* Multiverse::probability_table: per player, the three ratios as the numbers
\* of universes counted over the number of universes, or the faction of a
\* player dead everywhere, or the panic of expect
probability_table(mv) ==
    [player_idx \in 1..num_players(mv) |->
        IF player_idx \in alive(mv)
        THEN [kind |-> "Ok",
              village_universes |-> Cardinality({k \in 1..Len(mv) :
                    mv[k].factions[player_idx] = Village}),
              werewolves_universes |-> Cardinality({k \in 1..Len(mv) :
                    mv[k].factions[player_idx] = Werewolves}),
              dead_universes |-> Cardinality({k \in 1..Len(mv) : ~mv[k].alive[player_idx]}),
              universes |-> Len(mv)]
        ELSE IF faction(mv, player_idx) = None
        THEN [kind |-> "panic", msg |-> UndeterminedFaction]
        ELSE [kind |-> "Err", faction |-> faction(mv, player_idx)[1]]]

\* ------------------------------------------------------------------ C22
\* C22: in every reachable state with a Multiverse, for every player alive in
\* some universe the universes counted for Village and those counted for
\* Werewolves add up to all universes (the two faction ratios add up to 1),
\* and the universes counted as dead are counted on their own: they are the
\* universes where the player is dead, whatever the player's faction there.
C22_FactionRatiosSumToOne ==
    multiverse # << >> =>
        \A player_idx \in alive(multiverse) :
            LET row == probability_table(multiverse)[player_idx] IN
            /\ row.kind = "Ok"
            /\ row.village_universes + row.werewolves_universes = Len(multiverse)
            /\ row.universes = Len(multiverse)
            /\ row.dead_universes
                   = Len(SelectSeq(multiverse, LAMBDA universe : ~universe.alive[player_idx]))
            /\ row.dead_universes < Len(multiverse)

\* a day on which a player is Village in some universes, Werewolves in others
\* and dead in some
C22_Witness ==
    /\ phase = "Day"
    /\ \E player_idx \in alive(multiverse) :
           LET row == probability_table(multiverse)[player_idx] IN
           /\ row.village_universes > 0
           /\ row.werewolves_universes > 0
           /\ row.dead_universes > 0

\* ------------------------------------------------------------------ C23
\* C23: on every day every player dead in every universe has one faction, the
\* same in every universe, and probability_table reports it: no row of the
\* table is the panic of an undetermined faction.
C23_DeadHaveOneFaction ==
    phase = "Day" =>
        \A player_idx \in Players :
            player_idx \notin alive(multiverse) =>
                /\ \A j, k \in 1..Len(multiverse) :
                       multiverse[j].factions[player_idx] = multiverse[k].factions[player_idx]
                /\ probability_table(multiverse)[player_idx]
                       = [kind |-> "Err", faction |-> multiverse[1].factions[player_idx]]

\* a day with a player dead everywhere and more than one universe left
C23_Witness ==
    /\ phase = "Day"
    /\ Len(multiverse) > 1
    /\ \E player_idx \in Players :
           /\ player_idx \notin alive(multiverse)
           /\ probability_table(multiverse)[player_idx].kind = "Err"

\* ------------------------------------------------------------------ C24
\* Signups::num_players
SignupsNumPlayers(names) == Cardinality(names)

\* C24: while players sign up, sign_up returns true and adds the player when
\* the player was absent, and returns false and changes nothing otherwise;
\* remove_player returns true and removes the player when the player was
\* present, and returns false and changes nothing otherwise; a second sign_up
\* or remove_player of the same player changes nothing; and every step of
\* either changes num_players by exactly the players that joined or left.
C24_State ==
    phase = "Signups" =>
        \A player_id \in StartNames :
            LET added == insert(player_names, player_id)
                removed == remove(player_names, player_id)
            IN  /\ added.returned <=> player_id \notin player_names
                /\ player_id \in added.set
                /\ added.returned =>
                       SignupsNumPlayers(added.set) = SignupsNumPlayers(player_names) + 1
                /\ ~added.returned => added.set = player_names
                /\ insert(added.set, player_id) = [set |-> added.set, returned |-> FALSE]
                /\ removed.returned <=> player_id \in player_names
                /\ player_id \notin removed.set
                /\ removed.returned =>
                       SignupsNumPlayers(removed.set) = SignupsNumPlayers(player_names) - 1
                /\ ~removed.returned => removed.set = player_names
                /\ remove(removed.set, player_id) = [set |-> removed.set, returned |-> FALSE]
                /\ remove(added.set, player_id).set = player_names \ {player_id}

C24_Step ==
    (phase = "Signups" /\ phase' = "Signups") =>
        \E player_id \in StartNames :
            \/ /\ player_names' = player_names \cup {player_id}
               /\ SignupsNumPlayers(player_names')
                      = SignupsNumPlayers(player_names)
                            + (IF insert(player_names, player_id).returned THEN 1 ELSE 0)
            \/ /\ player_names' = player_names \ {player_id}
               /\ SignupsNumPlayers(player_names')
                      = SignupsNumPlayers(player_names)
                            - (IF remove(player_names, player_id).returned THEN 1 ELSE 0)

C24_SignupsIsASet == []C24_State /\ [][C24_Step]_vars

\* two players signed up, after more than two sign-ups or removals
C24_Witness ==
    /\ phase = "Signups"
    /\ SignupsNumPlayers(player_names) = 2
    /\ insert(player_names, "a").returned = FALSE
    /\ remove(player_names, "d").returned = FALSE

\* ------------------------------------------------------------------ C25
\* a step that ends a day and is not the lynch of anybody
C25_Step ==
    (/\ phase = "Day"
     /\ phase' \in {"Night", "Complete"}
     /\ ~\E name \in AnswerNames : RunLynch(name))
        => /\ phase' = "Night"
           /\ multiverse' = multiverse
           /\ secret_ids' = secret_ids
           /\ last_heals' = last_heals

\* C25: no_lynch leaves the Multiverse, the secret ids and the remembered heal
\* targets alone: the Night it yields holds the universes, the secret ids and
\* the last heals of the Day it consumed.
C25_NoLynchFrame == [][C25_Step]_vars

\* a night after a day without a lynch: nobody is dead everywhere, somebody is
\* dead somewhere, and a heal target is remembered
C25_Witness ==
    /\ phase = "Night"
    /\ pc = "idle"
    /\ nights = 1
    /\ alive(multiverse) = Players
    /\ \E k \in 1..Len(multiverse) : \E i \in Players : ~multiverse[k].alive[i]
    /\ \E i \in Players : last_heals[i] # None

\* ------------------------------------------------------------------ nights with every loop
\* Two nights of temporal resolution in games with a Detective, a Healer and a
\* Werewolf, or a Werewolf alone, over few answers.
MaxAskNights == 2
AskRoleLists == {<<Detective, Healer, Werewolf(0)>>, <<Werewolf(0)>>}
AskNames == {"a"}
AskTargets == {"a", "b"}

NextAsk ==
    \/ \E player_id \in Names : sign_up(player_id)
    \/ \E player_id \in Names : remove_player(player_id)
    \/ \E roles \in AskRoleLists : \E order \in Shuffles(player_names) : start(roles, order)
    \/ TarBegin(MaxAskNights)
    \/ \E player_id \in 1..Len(secret_ids) : \E choice \in Options(AskNames) :
           TarHeal(player_id, choice)
    \/ \E player_id \in 1..Len(secret_ids) : \E choice \in Options(AskNames) :
           TarInvestigate(player_id, choice)
    \/ \E player_id \in 1..Len(secret_ids) : \E target \in AskTargets :
           TarKill(player_id, target)
    \/ TarDawn
    \/ \E name \in Names : RunLynch(name)
    \/ no_lynch

SpecAsk == Init /\ [][NextAsk]_vars

\* ------------------------------------------------------------------ C26
\* the role r may still be alive: some universe gives it to a player who is
\* alive there or whose role is not yet the same in every universe
MayBeAlive(mv, r) ==
    \E k \in 1..Len(mv) : \E i \in 1..Len(mv[k].roles) :
        /\ mv[k].roles[i] = r
        /\ \/ mv[k].alive[i]
           \/ \E j \in 1..Len(mv) : mv[j].roles[i] # mv[k].roles[i]

C26_State ==
    (phase = "Night" /\ pc # "idle") =>
        /\ \A callback \in DOMAIN asked : \A p \in Players : asked[callback][p] <= 1
        /\ \A p \in Players :
               /\ pc \in {"heal", "investigate"} => asked["kill"][p] = 0
               /\ pc = "heal" => asked["investigate"][p] = 0
               /\ pc = "dawn" =>
                      asked["kill"][p] = (IF p \in alive(multiverse) THEN 1 ELSE 0)

\* the night begins: nobody has been asked, and the first loop is the healers'
\* only while a Healer may be alive, else the detectives' only while a
\* Detective may be alive, else the werewolves'
C26_Begin ==
    (phase = "Night" /\ pc = "idle" /\ phase' = "Night" /\ pc' # "idle") =>
        /\ \A callback \in DOMAIN asked' : \A p \in Players : asked'[callback][p] = 0
        /\ pc' = (IF MayBeAlive(multiverse, Healer) THEN "heal"
                  ELSE IF MayBeAlive(multiverse, Detective) THEN "investigate"
                  ELSE "kill")

\* a turn of a loop: one player not yet visited is visited, and is asked once
\* more exactly if alive in some universe, whatever the player's roles; the
\* loop ends when everybody has been visited, and then everybody alive
\* somewhere has been asked once
C26_Turn ==
    (phase = "Night" /\ pc \in {"heal", "investigate", "kill"} /\ phase' = "Night") =>
        \E p \in Players \ done :
            /\ \/ done' = done \cup {p} /\ pc' = pc
               \/ /\ done \cup {p} = Players
                  /\ done' = {}
                  /\ pc' = (IF pc = "heal" /\ MayBeAlive(multiverse', Detective)
                            THEN "investigate"
                            ELSE IF pc \in {"heal", "investigate"} THEN "kill"
                            ELSE "dawn")
                  /\ \A q \in alive(multiverse') : asked'[pc][q] = 1
            /\ \A callback \in DOMAIN asked : \A q \in Players :
                   asked'[callback][q] =
                       asked[callback][q]
                           + (IF callback = pc /\ q = p /\ p \in alive(multiverse)
                              THEN 1 ELSE 0)

\* C26: in one night of temporal resolution every player alive in some universe
\* at their turn is asked exactly once for a kill target and, while the Healer
\* (the Detective) may still be alive, exactly once for a heal (an
\* investigation) target, whatever the player's roles; a player dead in every
\* universe is not asked.
C26_EveryLivingPlayerIsAsked == []C26_State /\ [][C26_Begin /\ C26_Turn]_vars

\* the end of a second night in which a player dead everywhere was passed over,
\* the healer loop was not run, and another player was asked by the other two
C26_Witness ==
    /\ phase = "Night"
    /\ pc = "dawn"
    /\ nights = 2
    /\ \E p, q \in Players :
           /\ p \notin alive(multiverse)
           /\ asked["heal"][p] = 0 /\ asked["investigate"][p] = 0 /\ asked["kill"][p] = 0
           /\ asked["heal"][q] = 0 /\ asked["investigate"][q] = 1 /\ asked["kill"][q] = 1

\* ------------------------------------------------------------------ C27
\* the name is not the name of a player alive in some universe
NamesNobodyAlive(name) ==
    \/ Position(secret_ids, name) = None
    \/ Position(secret_ids, name)[1] \notin alive(multiverse)

C27_Step ==
    (phase = "Night" /\ pc = "heal") =>
        \A p \in alive(multiverse) \ done : \A name \in AnswerNames :
            (NamesNobodyAlive(name) /\ TarHeal(p, Some(name))) => TarHeal(p, None)

\* C27: in temporal resolution a heal answer that names a player dead in every
\* universe or a name not in the game counts as no answer: the step the healer
\* loop takes with it is the step it takes when the player returns no target,
\* and resolution does not abort.
C27_BadHealTargetIsNoTarget == [][C27_Step]_vars

\* ------------------------------------------------------------------ C28
C28_Step ==
    (phase = "Night" /\ pc = "investigate") =>
        \A p \in alive(multiverse) \ done : \A name \in AnswerNames :
            ((NamesNobodyAlive(name) \/ name = secret_ids[p])
                /\ TarInvestigate(p, Some(name)))
            => /\ TarInvestigate(p, None)
               /\ phase' = "Night"
               /\ night_action_results'[p] = None
               /\ multiverse' = multiverse

\* C28: in temporal resolution an investigation answer that names a dead
\* player, the player's own name or a name not in the game counts as no
\* answer: no result is recorded for the player, no universe is removed and
\* resolution does not abort.
C28_BadInvestigationTargetIsNoTarget == [][C28_Step]_vars

\* ------------------------------------------------------------------ C29
\* temporal resolution: the turn of a player who is a living Detective nowhere
\* and names a player of the game
C29_TarStep ==
    (phase = "Night" /\ pc = "investigate") =>
        \A p \in alive(multiverse) \ done : \A name \in Names :
            (/\ LivingDetective(multiverse, p) = {}
             /\ Position(secret_ids, name) # None
             /\ TarInvestigate(p, Some(name)))
            => /\ night_action_results' = night_action_results
               /\ multiverse' = multiverse
               /\ phase' = "Night"
               /\ \/ pc' = "investigate" /\ done' = done \cup {p}
                  \/ pc' = "kill" /\ done \cup {p} = Players /\ done' = {}

\* batch resolution: the action of such a player applied to the Multiverse,
\* alone and followed by a kill
C29_NarAction ==
    (phase = "Night" /\ pc = "idle") =>
        LET st == NarLocals(multiverse, NoOptions(Len(secret_ids)), NoOptions(Len(secret_ids)))
        IN  \A src, tgt \in Players :
                LivingDetective(multiverse, src) = {} =>
                    /\ NarAction(st, Investigate(src, tgt)) = {st}
                    /\ \A killer, victim \in Players :
                           NarActions(st, <<Investigate(src, tgt), Kill(killer, victim)>>)
                               = NarAction(st, Kill(killer, victim))

\* C29: when player p investigates and no universe has p as a living Detective
\* the investigation is skipped: no result is recorded for p, no universe is
\* removed or changed, and the players after p are still processed, in
\* temporal and in batch resolution.
C29_NoDetectiveNoInvestigation == [][C29_TarStep]_vars /\ []C29_NarAction

\* a detective loop that has asked a player who is alive somewhere and a
\* living Detective nowhere, and holds no result for them
C29_Witness ==
    /\ phase = "Night"
    /\ pc \in {"investigate", "kill"}
    /\ \E p \in alive(multiverse) :
           /\ asked["investigate"][p] = 1
           /\ LivingDetective(multiverse, p) = {}
           /\ \E k \in 1..Len(multiverse) : multiverse[k].roles[p] = Detective
           /\ night_action_results[p] = None

\* ------------------------------------------------------------------ C30
\* the lists submitted to batch resolution, with names that are not in the game
SubmittedLists == UNION {[1..n -> NightActions({"Heal", "Investigate", "Kill"}, AnswerNames)] :
                            n \in 0..MaxBatch}

\* C30: whatever list of heal, investigate and kill actions is submitted, the
\* list batch resolution applies holds no action whose source or target is
\* unknown or dead in every universe, no two actions of one kind from one
\* source, and no heal of the target the source healed the night before.
C30_SanitizedActionsLegal ==
    (phase = "Night" /\ pc = "idle") =>
        \A night_actions \in SubmittedLists :
            \A actions \in sanitized_night_actions(night_actions) :
                \A i \in 1..Len(actions) :
                    /\ actions[i].src \in alive(multiverse)
                    /\ actions[i].tgt \in alive(multiverse)
                    /\ \A j \in 1..Len(actions) :
                           (actions[j].kind = actions[i].kind /\ actions[j].src = actions[i].src)
                               => j = i
                    /\ actions[i].kind = "Heal" => last_heals[actions[i].src] # Some(actions[i].tgt)

\* ------------------------------------------------------------------ batch resolution on its own
\* Batch resolution in games of three players with one Werewolf, over action
\* lists of at most one kill.
MaxNarNights == 1
NarRoleLists == {<<Werewolf(0)>>}
NarNames == {"a", "b"}
NarBatchLists == UNION {[1..n -> NightActions({"Kill"}, NarNames)] : n \in 0..1}

NextNar ==
    \/ \E player_id \in Names : sign_up(player_id)
    \/ \E player_id \in Names : remove_player(player_id)
    \/ \E roles \in NarRoleLists : \E order \in Shuffles(player_names) : start(roles, order)
    \/ \E night_actions \in NarBatchLists : resolve_nar(night_actions, MaxNarNights)
    \/ \E name \in Names : RunLynch(name)
    \/ no_lynch

SpecNar == Init /\ [][NextNar]_vars

\* ------------------------------------------------------------------ C31
\* the kill actions of player p in a sanitized list
KillsOf(actions, p) ==
    {i \in 1..Len(actions) : actions[i].kind = "Kill" /\ actions[i].src = p}

\* C31: whatever list is submitted to batch resolution, the sanitized list
\* holds exactly one kill action for every player alive in some universe, its
\* target alive in some universe, and none for a player dead in every universe.
C31_OneKillPerLivingPlayer ==
    (phase = "Night" /\ pc = "idle") =>
        \A night_actions \in SubmittedLists :
            \A actions \in sanitized_night_actions(night_actions) :
                \A p \in Players :
                    IF p \in alive(multiverse)
                    THEN /\ Cardinality(KillsOf(actions, p)) = 1
                         /\ \A i \in KillsOf(actions, p) : actions[i].tgt \in alive(multiverse)
                    ELSE KillsOf(actions, p) = {}

\* a night after a lynch: of the two players left one submits a kill and the
\* other stays silent, and the list applied holds the kill submitted, one kill
\* drawn for the silent player and none for the player lynched
C31_Witness ==
    /\ phase = "Night"
    /\ pc = "idle"
    /\ nights = 1
    /\ \E p \in Players \ alive(multiverse) : \E q, r \in alive(multiverse) :
           /\ q # r
           /\ \E actions \in sanitized_night_actions(<<Kill(secret_ids[q], secret_ids[r])>>) :
                  /\ Len(actions) = 2
                  /\ actions[1] = Kill(q, r)
                  /\ actions[2].src = r
                  /\ KillsOf(actions, p) = {}

\* ------------------------------------------------------------------ C32
\* the role list the claim has start place: the entries that are no Villager,
\* in submission order, the Werewolves among them numbered from 0
RolesAsClaimed(roles) ==
    LET kept == SelectSeq(roles, LAMBDA r : r.kind # "villager")
    IN  [i \in 1..Len(kept) |->
            IF kept[i].kind = "werewolf"
            THEN [kind |-> "werewolf",
                  rank |-> Cardinality({j \in 1..(i - 1) : kept[j].kind = "werewolf"})]
            ELSE kept[i]]

\* the Werewolves of a universe carry the ranks 0..k-1, each once
RanksConsecutive(universe) ==
    LET wolves == {i \in 1..Len(universe.roles) : universe.roles[i].kind = "werewolf"}
    IN  /\ \A i, j \in wolves : i # j => universe.roles[i].rank # universe.roles[j].rank
        /\ {universe.roles[i].rank : i \in wolves} = 0..(Cardinality(wolves) - 1)

\* a successful start has built the universes of the list as claimed, and each
\* holds as many players of each role as the list has entries of it
C32_Step ==
    (phase = "Signups" /\ phase' \in {"Night", "Complete"}) =>
        \A roles \in RoleLists : \A order \in Shuffles(player_names) :
            start(roles, order) =>
                /\ multiverse' = MultiverseNew(RolesAsClaimed(roles), Cardinality(player_names))
                /\ \A k \in 1..Len(multiverse') : \A kind \in {"detective", "healer", "werewolf"} :
                       Cardinality({i \in 1..Len(multiverse'[k].roles) :
                                       multiverse'[k].roles[i].kind = kind})
                           = Cardinality({i \in 1..Len(roles) : roles[i].kind = kind})

\* C32: start drops the Villager entries of the requested role list and
\* renumbers its Werewolf entries 0..k-1 in submission order, whatever ranks
\* they carried; in every universe of every state the Werewolf ranks are
\* pairwise distinct.
C32_RolesRenumbered ==
    [](\A k \in 1..Len(multiverse) : RanksConsecutive(multiverse[k])) /\ [][C32_Step]_vars

\* the first Night of a game started with two Werewolves of rank 1: six
\* universes, each with a Werewolf of rank 0 and one of rank 1
C32_Witness ==
    /\ phase = "Night"
    /\ pc = "idle"
    /\ nights = 0
    /\ multiverse = MultiverseNew(RolesAsClaimed(<<Werewolf(1), Werewolf(1)>>), 3)
    /\ Len(multiverse) = 6
    /\ \A k \in 1..6 : {multiverse[k].roles[i].rank : i \in
                             {j \in 1..3 : IsWerewolf(multiverse[k].roles[j])}} = {0, 1}

\* ------------------------------------------------------------------ C33
\* temporal resolution begins: every universe's lists are empty
C33_Begin ==
    (phase = "Night" /\ pc = "idle" /\ phase' = "Night" /\ pc' # "idle") =>
        \A k \in 1..Len(multiverse') :
            multiverse'[k].heals = << >> /\ multiverse'[k].kills = << >>

\* during temporal resolution a universe's protections are those given this
\* night by a player who is its Healer, and its pending kills name players
\* alive in it and not protected
C33_Tar ==
    (phase = "Night" /\ pc # "idle") =>
        \A k \in 1..Len(multiverse) :
            /\ \A t \in Range(multiverse[k].heals) :
                   \E p \in Players : /\ current_heals[p] = Some(t)
                                       /\ multiverse[k].roles[p] = Healer
            /\ \A t \in Range(multiverse[k].kills) :
                   multiverse[k].alive[t] /\ ~Contains(multiverse[k].heals, t)

\* batch resolution of a heal and a kill, from any Night: the lists hold
\* nothing but the target of this heal and the target of this kill, and the
\* target of the kill is pending in every universe where the killer is the
\* senior living Werewolf and the heal does not apply, whoever was protected
\* the night before
C33_Nar ==
    (phase = "Night" /\ pc = "idle") =>
        \A h, t, w, v \in alive(multiverse) :
            \A st \in NarLoops(multiverse, <<Heal(h, t), Kill(w, v)>>) :
                /\ st.msg = None
                /\ \A k \in 1..Len(st.mv) :
                       /\ Range(st.mv[k].heals) \subseteq {t}
                       /\ Range(st.mv[k].kills) \subseteq {v}
                       /\ Contains(st.mv[k].heals, t) <=> NarCanHeal(multiverse[k], h, t)
                       /\ Contains(st.mv[k].kills, v) <=>
                              /\ NarCanKill(multiverse[k], w, v)
                              /\ ~(v = t /\ NarCanHeal(multiverse[k], h, t))

\* C33: every night resolution empties the pending heals and the pending kills
\* of every universe before it applies an action, so a protection or a pending
\* kill of one night has no effect in a later night.
C33_ListsClearedEachNight == [](C33_Tar /\ C33_Nar) /\ [][C33_Begin]_vars

\* the end of a second night: in some universe the player its living Healer
\* protected the night before is on the death list
C33_Witness ==
    /\ phase = "Night"
    /\ pc = "dawn"
    /\ nights = 2
    /\ \E k \in 1..Len(multiverse) : \E p, t \in Players :
           /\ last_heals[p] = Some(t)
           /\ multiverse[k].roles[p] = Healer
           /\ multiverse[k].alive[p]
           /\ Contains(multiverse[k].kills, t)
           /\ ~Contains(multiverse[k].heals, t)

\* ------------------------------------------------------------------ C34
\* the factions whose win condition holds in the universe
WinningFactions(universe) == {f \in Factions : wincon(f, universe)}

\* C34: in every universe at most one faction's win condition holds, and the
\* universe is over (by day) exactly when one does; a universe with nobody or
\* with fewer than two players alive has a winning faction.
C34_OverIffOneFactionWins ==
    \A k \in 1..Len(multiverse) :
        LET universe == multiverse[k]
            living == {i \in 1..Len(universe.alive) : universe.alive[i]}
        IN  /\ Cardinality(WinningFactions(universe)) <= 1
            /\ UniverseGameOver(universe, FALSE) <=> Cardinality(WinningFactions(universe)) = 1
            /\ Cardinality(living) < 2 => WinningFactions(universe) # {}

\* a universe of both factions whose only survivor is a Village player: it is
\* over, and the Village alone has won it
C34_Witness ==
    /\ phase = "Complete"
    /\ Cardinality({i \in 1..Len(multiverse[1].alive) : multiverse[1].alive[i]}) = 1
    /\ \E i \in 1..Len(multiverse[1].alive) : multiverse[1].factions[i] = Werewolves
    /\ WinningFactions(multiverse[1]) = {Village}
    /\ UniverseGameOver(multiverse[1], FALSE)

\* ------------------------------------------------------------------ C35
\* the players of faction f in the universe, alive or dead
PlayersOf(f, universe) ==
    {secret_ids[i] : i \in {j \in 1..Len(universe.factions) : universe.factions[j] = f}}

\* C35: the winners of every Complete state are not empty and are all the
\* players of exactly one faction of one universe of the final Multiverse.
C35_WinnersAreOneFaction ==
    phase = "Complete" =>
        /\ winners # {}
        /\ \E k \in 1..Len(multiverse) : \E f \in Factions :
               /\ winners = PlayersOf(f, multiverse[k])
               /\ winners # PlayersOf(CHOOSE g \in Factions : g # f, multiverse[k])

\* a game ended after a night by a universe in which both factions have
\* players and a player of the winning faction is dead
C35_Witness ==
    /\ phase = "Complete"
    /\ nights = 1
    /\ \E k \in 1..Len(multiverse) : \E f \in Factions : \E i \in Players :
           /\ winners = PlayersOf(f, multiverse[k])
           /\ winners # {secret_ids[j] : j \in Players}
           /\ multiverse[k].factions[i] = f
           /\ ~multiverse[k].alive[i]

\* ------------------------------------------------------------------ C36
\* a Day is entered with a universe in which the game is not over
C36_DayEntered ==
    (phase # "Day" /\ phase' = "Day") =>
        \E k \in 1..Len(multiverse') : ~EndCondition(multiverse'[k])

\* every step no_lynch can take from the Day leads to Night, names no winner
\* and leaves every universe as it was
C36_NoLynch ==
    (phase = "Day" /\ no_lynch) =>
        /\ phase' = "Night"
        /\ winners' = {}
        /\ Len(multiverse') = Len(multiverse)
        /\ \A k \in 1..Len(multiverse) : multiverse'[k] = multiverse[k]

\* C36: no_lynch from a reachable Day always yields Night, never Complete: a
\* Day is only entered, and only held, with a universe that is not over, and
\* no_lynch changes no universe.
C36_NoLynchNeverCompletes ==
    /\ [](phase = "Day" => ~game_over(multiverse, FALSE))
    /\ [][C36_DayEntered /\ C36_NoLynch]_vars

\* a Night that followed a Day without a lynch although the game was over in
\* one of the universes
C36_Witness ==
    /\ phase = "Night"
    /\ pc = "idle"
    /\ nights = 1
    /\ alive(multiverse) = Players
    /\ \E k \in 1..Len(multiverse) : UniverseGameOver(multiverse[k], FALSE)
    /\ \E k \in 1..Len(multiverse) : ~UniverseGameOver(multiverse[k], FALSE)

\* ------------------------------------------------------------------ C37
\* the living Werewolves of the universe that no living Werewolf outranks
SeniorWerewolves(universe) ==
    {i \in 1..Len(universe.roles) :
        /\ universe.roles[i].kind = "werewolf"
        /\ universe.alive[i]
        /\ \A j \in 1..Len(universe.roles) :
               (universe.roles[j].kind = "werewolf" /\ universe.alive[j])
                   => universe.roles[j].rank >= universe.roles[i].rank}

\* a universe's death list holds at most one entry, and the universe has one
\* senior Werewolf while a Werewolf is alive in it, and none otherwise
C37_State ==
    \A k \in 1..Len(multiverse) :
        /\ Len(multiverse[k].kills) <= 1
        /\ Cardinality(SeniorWerewolves(multiverse[k])) =
               (IF \E i \in Players : /\ multiverse[k].roles[i].kind = "werewolf"
                                        /\ multiverse[k].alive[i]
                THEN 1 ELSE 0)

\* the end of a night: every universe left is a universe of the night in
\* which at most one player, the one on its death list, has died
C37_Dawn ==
    (phase = "Night" /\ phase' \in {"Day", "Complete"}) =>
        \A j \in 1..Len(multiverse') : \E k \in 1..Len(multiverse) :
            LET died == {i \in Players : multiverse[k].alive[i] /\ ~multiverse'[j].alive[i]}
            IN  /\ multiverse'[j].roles = multiverse[k].roles
                /\ \A i \in Players : multiverse'[j].alive[i] => multiverse[k].alive[i]
                /\ Cardinality(died) <= 1
                /\ died = Range(multiverse'[j].kills)

\* C37: in every universe at most one player dies per night: at dawn its
\* pending kills hold at most one player, in temporal and in batch resolution.
C37_OneDeathPerNight == []C37_State /\ [][C37_Dawn]_vars

\* a Day after a night that killed a player in one universe and, thanks to a
\* heal, nobody in another
C37_Witness ==
    /\ phase = "Day"
    /\ \E j, k \in 1..Len(multiverse) : \E i \in Players :
           /\ multiverse[j].kills = <<i>>
           /\ ~multiverse[j].alive[i]
           /\ multiverse[k].kills = << >>
           /\ multiverse[k].heals # << >>
           /\ \A x \in Players : multiverse[k].alive[x]

\* ------------------------------------------------------------------ C38
\* the Multiverse the game began with, read off one of its universes: every
\* placement of that universe's special roles
InitialWorlds(universe) ==
    MultiverseNew(SelectSeq(universe.roles, LAMBDA r : r # Villager), Len(universe.roles))

\* the Multiverse holds no more universes than the initial one, and each has
\* a role assignment of the initial one
C38_State ==
    phase \in {"Night", "Day", "Complete"} =>
        LET initial == InitialWorlds(multiverse[1])
        IN  /\ Len(multiverse) <= Len(initial)
            /\ \A k \in 1..Len(multiverse) : \E j \in 1..Len(initial) :
                   initial[j].roles = multiverse[k].roles

\* a step of a running game adds no universe, no role assignment and no
\* player to alive()
C38_Step ==
    (InGame /\ phase' \in {"Night", "Day", "Complete"}) =>
        /\ Len(multiverse') <= Len(multiverse)
        /\ {multiverse'[j].roles : j \in 1..Len(multiverse')}
               \subseteq {multiverse[k].roles : k \in 1..Len(multiverse)}
        /\ alive(multiverse') \subseteq alive(multiverse)

\* C38: over night resolutions, lynches and no-lynches the Multiverse never
\* gains a universe, every universe left has a role assignment of the initial
\* Multiverse, and alive() never gains a player.
C38_MultiverseOnlyShrinks == []C38_State /\ [][C38_Step]_vars

\* the Day after a second night: universes have gone, and so has a player
C38_Witness ==
    /\ phase = "Day"
    /\ nights = 2
    /\ Len(multiverse) < Len(InitialWorlds(multiverse[1]))
    /\ Len(multiverse) > 1
    /\ alive(multiverse) # Players

\* ------------------------------------------------------------------ games in which every Day ends with a lynch
\* Temporal resolution and lynch only: games of three players with a Healer
\* and a Werewolf or with two Werewolves.  Heal targets are the name of a
\* player or a name that is not in the game; kill targets are names of players.
MaxLynchNights == 2
LynchRoleLists == {<<Healer, Werewolf(0)>>, <<Werewolf(0), Werewolf(0)>>}
LynchHeals == {"a", Stranger}
LynchTargets == {"a", "b"}

NextLynch ==
    \/ \E player_id \in Names : sign_up(player_id)
    \/ \E player_id \in Names : remove_player(player_id)
    \/ \E roles \in LynchRoleLists : \E order \in Shuffles(player_names) : start(roles, order)
    \/ TarBegin(MaxLynchNights)
    \/ \E player_id \in 1..Len(secret_ids) : \E choice \in Options(LynchHeals) :
           TarHeal(player_id, choice)
    \/ \E player_id \in 1..Len(secret_ids) : \E target \in LynchTargets :
           TarKill(player_id, target)
    \/ TarDawn
    \/ \E name \in AnswerNames : RunLynch(name)

SpecLynch == Init /\ [][NextLynch]_vars

\* ------------------------------------------------------------------ C39
\* the lynches of the game so far, when every Day has ended with one: one per
\* night resolved, the night that is running or has just ended not counted
LynchesSoFar == IF phase = "Night" /\ pc = "idle" THEN nights ELSE nights - 1

\* a running game has two players or more in alive(), every lynch so far has
\* taken a player out of alive(), and fewer than N - 1 lynches have happened
C39_Running ==
    InGame =>
        /\ Cardinality(alive(multiverse)) >= 2
        /\ Cardinality(alive(multiverse)) <= Len(secret_ids) - LynchesSoFar
        /\ LynchesSoFar <= Len(secret_ids) - 2

\* the end of a Day: the lynch does not abort, it takes a player out of
\* alive(), and the lynch number N - 1 completes the game
C39_Lynch ==
    (phase = "Day" /\ phase' # "Day") =>
        /\ phase' \in {"Night", "Complete"}
        /\ alive(multiverse') \subseteq alive(multiverse)
        /\ alive(multiverse') # alive(multiverse)
        /\ nights = Len(secret_ids) - 1 => phase' = "Complete"

\* the bound on its own: no game has more than N - 1 lynches
C39_LynchBound == []C39_Running /\ [][C39_Lynch]_vars

\* C39: when every Day ends with a lynch of a target can_lynch allows, the
\* game is Complete after at most N - 1 lynches, whatever is chosen at night:
\* each lynch removes a player from alive(), a Day has at least two, and a
\* game that has started is running with fewer than N - 1 lynches behind it or
\* is Complete, never stopped otherwise.
C39_CompleteWithinNLynches ==
    /\ [](C39_Running /\ phase \in {"Signups", "StartFailed", "Night", "Day", "Complete"})
    /\ [][C39_Lynch]_vars

\* ------------------------------------------------------------------ C40
MultipleResults == "multiple night action results for one player"

\* a result recorded during temporal resolution is not replaced
C40_Tar ==
    (phase = "Night" /\ pc # "idle" /\ phase' = "Night") =>
        \A p \in Players :
            night_action_results[p] # None => night_action_results'[p] = night_action_results[p]

\* C40: no night aborts with "multiple night action results for one player":
\* no player gets a second investigation result in one night, in temporal
\* resolution for any answers and in batch resolution for any list submitted,
\* lists with several investigations from one source included.
C40_OneResultPerPlayer ==
    [](aborted # Some(MultipleResults)) /\ [][C40_Tar]_vars

\* a Night in which batch resolution of two investigations submitted by one
\* player gives that player a result, from the first of them
C40_Witness ==
    /\ phase = "Night"
    /\ pc = "idle"
    /\ \E p, q, r \in Players :
           /\ q # r
           /\ \E actions \in sanitized_night_actions(
                      <<Investigate(secret_ids[p], secret_ids[q]),
                        Investigate(secret_ids[p], secret_ids[r])>>) :
                  /\ actions[1] = Investigate(p, q)
                  /\ ~HasAction(actions, "Investigate", r)
                  /\ \A i \in 2..Len(actions) : actions[i].kind = "Kill"
                  /\ \E st \in NarLoops(multiverse, actions) :
                         st.msg = None /\ st.night_action_results[p] # None

====
